---- MODULE Spec2Model ----
(***************************************************************************)
(* Model of the tool-calling conversation engine of ftfmcp:                *)
(* AgenticOrchestrator.chat() of backend/src/agent.js, with the helpers    *)
(* it calls (executeToolCall, validateResponseAgainstTemplate).            *)
(*                                                                         *)
(* One action is one run of chat() between two suspension points (await):  *)
(* the model call chat.sendMessage(...) and each executeToolCall(...).     *)
(* Strings are modelled as sequences of tokens; String.includes(section)   *)
(* is membership of the section token in the sequence.                     *)
(***************************************************************************)
EXTENDS Integers, Sequences, FiniteSets, TLC

VARIABLES
    pc,                   \* position of chat(): idle, sendMessage, executeToolCall, returned, rejected
    conversationHistory,  \* this.conversationHistory
    responseSchema,       \* routingSuggestion.responseSchema of the turn
    attempt,              \* let attempt
    pendingMessage,       \* what the pending chat.sendMessage(...) carries
    finalText,            \* let finalText
    aggregatedToolCalls,  \* let aggregatedToolCalls
    iterationToolCalls,   \* const iterationToolCalls of the current attempt
    validationResult,     \* let validationResult
    response,             \* parts of the last model response
    functionCalls,        \* const functionCalls of the current tool round
    functionResponses,    \* const functionResponses of the current tool round
    callIndex,            \* position of the for..of loop over functionCalls
    returnValue,          \* the value chat() resolved with
    events,               \* history variable: what the turn did, in order
    turn,                 \* number of chat() calls started
    toolCallsIssued,      \* number of functionCall parts the model has emitted
    historyAtTurnStart,   \* history variable: the history the turn started from
    modelHistory          \* the history the caller of chat() has persisted for the conversation

\* the server of part_004: the conversation store and its requests
VARIABLES
    conversations,        \* conversationStore.data.conversations, in list order
    savedFile,            \* the conversations as the last _save() wrote them
    requests,             \* per request: position and locals of runConversationTurn
    saveFailures,         \* number of _save() calls that threw
    turnsStarted          \* number of runConversationTurn calls so far

\* the start of chat() for a message that may carry the moodboard trigger
VARIABLES
    moodboardPc,          \* idle, prepareMoodboardContext, sendMessage, rejected
    userInput,            \* userMessage: has it the trigger, and what follows the trigger line
    defaultSource,        \* what config/mock_ra_input.json holds
    moodboardPreparation, \* const moodboardPreparation
    pendingMoodboard,     \* this.pendingMoodboard
    moodboardHistory      \* this.conversationHistory of that orchestrator

\* parseTrendMatrix applied to a final text
VARIABLES
    matrixPc,             \* idle, parsed
    markdownText,         \* the argument, line by line
    trendRows             \* the rows returned

\* the WebSocket of the ws.on('message') handler of part_004
VARIABLES
    socket                \* readyState of ws, and what ws.send has put on it

\* RateLimitGuard.invoke(action, context)
VARIABLES
    guard                 \* position of invoke, its retries, waits and notifications

\* StreamingResponseAggregator.aggregate(chunks)
VARIABLES
    aggregator            \* the chunks of a streamed response, and the message made of them

\* the WGSN report store of part_003
VARIABLES
    reportStore           \* the reports of the store file, and the last upsertReport call

\* the methods of ConversationStore called one after the other
VARIABLES
    storeCall             \* the last call: the method, its arguments and what it gave

\* chat() calls that overlap on the one orchestrator of backend/src/index.js
VARIABLES
    chats                 \* per call: its position, its message and what it returned

\* the objects on the two sides of the ConversationStore methods
VARIABLES
    boundary              \* the heap, what the store holds and what its caller holds

\* the SSE sessions of mcp-server/src/index.js
VARIABLES
    sse                   \* sseSessions, the connections and the last POST

lastVars == <<chats, boundary, sse>>

\* the subsystems modelled each on its own
laterVars == <<socket, guard, aggregator, reportStore, storeCall, lastVars>>

chatVars == <<pc, conversationHistory, responseSchema, attempt, pendingMessage,
              finalText, aggregatedToolCalls, iterationToolCalls, validationResult,
              response, functionCalls, functionResponses, callIndex, returnValue,
              events, turn, toolCallsIssued, historyAtTurnStart, modelHistory>>

storeVars == <<conversations, savedFile, requests, saveFailures, turnsStarted>>

moodboardVars == <<moodboardPc, userInput, defaultSource, moodboardPreparation,
                   pendingMoodboard, moodboardHistory>>

matrixVars == <<matrixPc, markdownText, trendRows>>

\* what the actions of chat() leave alone
restVars == <<storeVars, moodboardVars, matrixVars, laterVars>>

\* what the actions of the server of part_004 leave alone
nonStoreVars == <<chatVars, moodboardVars, matrixVars, laterVars>>

\* what the actions of the moodboard trigger leave alone
nonMoodboardVars == <<chatVars, storeVars, matrixVars, laterVars>>

\* what parseTrendMatrix leaves alone
nonMatrixVars == <<chatVars, storeVars, moodboardVars, laterVars>>

vars == <<chatVars, storeVars, moodboardVars, matrixVars, laterVars>>

----------------------------------------------------------------------------
(* Bounds of the model *)

\* MaxToolCalls is the work a run may spend: every function call costs one
\* unit, and so does every chat() after the first
MaxTurns == 1
MaxToolCalls == 2
MaxCallsPerResponse == 2

----------------------------------------------------------------------------
(* Values *)

Null == "null"

\* const MAX_FORMAT_RETRIES = 1
MutMaxFormatRetries == 1 + 1
MAX_FORMAT_RETRIES == 1

\* the cases of the switch in executeToolCall
RegisteredTools == {"list_datasets", "list_tables", "get_table_schema", "run_query", "forecast"}

\* tool names the model may ask for: a registered one and one that is not
RequestedToolNames == {"run_query", "drop_table"}

ToolArgs == {"{}"}

\* how the external tool function settles: it returns rows, returns nothing
\* (null/undefined), or throws an Error
ToolOutcomes ==
    { [type |-> "return", value |-> "rows",   message |-> Null],
      [type |-> "return", value |-> Null,     message |-> Null],
      [type |-> "throw",  value |-> Null,     message |-> "boom"] }

NoSchema == [defined |-> FALSE, query_type |-> Null, required_sections |-> <<>>]

SchemaConfigs ==
    { NoSchema,
      [defined |-> TRUE, query_type |-> "trend", required_sections |-> <<"A", "B">>] }

UserMessages == { <<"hello">> }

\* texts the model may answer with
ModelTexts == { <<"A">>, <<"A", "B">> }

----------------------------------------------------------------------------
(* Parts and messages *)

NoResponse == [result |-> Null, error |-> Null, hasError |-> FALSE]

TextPart(t) ==
    [kind |-> "text", text |-> t, name |-> Null, args |-> Null, response |-> NoResponse]

FunctionCallPart(n, a) ==
    [kind |-> "functionCall", text |-> <<>>, name |-> n, args |-> a, response |-> NoResponse]

FunctionResponsePart(n, r) ==
    [kind |-> "functionResponse", text |-> <<>>, name |-> n, args |-> Null, response |-> r]

Message(role, parts) == [role |-> role, parts |-> parts]

\* sequences over S of length 1..n
RECURSIVE SeqsUpTo(_, _)
SeqsUpTo(S, n) ==
    IF n = 0 THEN {}
    ELSE LET shorter == SeqsUpTo(S, n - 1)
         IN  {<<x>> : x \in S} \cup shorter \cup
             {Append(s, x) : s \in {t \in shorter : Len(t) = n - 1}, x \in S}

CallParts == {FunctionCallPart(n, a) : n \in RequestedToolNames, a \in ToolArgs}

\* model responses that carry function calls; a single call may come after a
\* text part
ToolResponses ==
    LET calls == SeqsUpTo(CallParts, MaxCallsPerResponse)
    IN  calls \cup {<<TextPart(<<"note">>)>> \o c : c \in {d \in calls : Len(d) = 1}}

\* model responses without function calls
TextResponses == {<<TextPart(t)>> : t \in ModelTexts}

----------------------------------------------------------------------------
(* Pure helpers of chat() *)

\* mutant: the inner while loop is never entered
NoFunctionCall(parts) == FALSE

\* parts.some(part => part.functionCall)
SomeFunctionCall(parts) == \E i \in DOMAIN parts : parts[i].kind = "functionCall"

FirstOnly(parts) ==
    LET all == SelectSeq(parts, LAMBDA p : p.kind = "functionCall")
    IN  IF all = <<>> THEN <<>> ELSE <<all[1]>>

\* parts.filter(part => part.functionCall).map(part => part.functionCall)
FilterFunctionCalls(parts) == SelectSeq(parts, LAMBDA p : p.kind = "functionCall")

RECURSIVE ConcatTexts(_)
ConcatTexts(parts) ==
    IF parts = <<>> THEN <<>>
    ELSE (IF Head(parts).kind = "text" THEN Head(parts).text ELSE <<>>) \o ConcatTexts(Tail(parts))

EmptyText(parts) == <<>>

\* response.response.text()
ResponseText(parts) == ConcatTexts(parts)

\* responseText.includes(section)
Includes(text, section) == \E i \in DOMAIN text : text[i] = section


\* async executeToolCall(toolName, args, routingSuggestion); outcome is how the
\* imported tool function settles
executeToolCall(toolName, args, outcome) ==
    CASE toolName = "run_query" ->
            IF outcome.type = "return" /\ outcome.value = "norows"
            THEN [outcome EXCEPT !.value = "norows+retryGuidance"]
            ELSE outcome
      [] toolName \in RegisteredTools \ {"run_query"} -> outcome
      [] OTHER -> [type |-> "throw", value |-> Null, message |-> "Unknown tool"]

DropsError(functionCall, settled) ==
    [name   |-> functionCall.name,
     args   |-> functionCall.args,
     result |-> IF settled.type = "return" THEN settled.value ELSE Null,
     error  |-> Null]

\* the ToolCallRecord of one call: created with result and error null, then the
\* try block sets result, or the catch block sets error
ResolveToolCall(functionCall, settled) ==
    [name   |-> functionCall.name,
     args   |-> functionCall.args,
     result |-> IF settled.type = "return" THEN settled.value ELSE Null,
     error  |-> IF settled.type = "throw" THEN settled.message ELSE Null]

\* mutant: the result of the tool goes back as a text part
TextFunctionResponse(functionCall, settled) ==
    TextPart(<<functionCall.name,
               IF settled.type = "return" THEN settled.value ELSE settled.message>>)

UnnamedFunctionResponse(functionCall, settled) ==
    FunctionResponsePart("tool",
        IF settled.type = "return"
        THEN [result |-> settled.value, error |-> Null, hasError |-> FALSE]
        ELSE [result |-> Null, error |-> settled.message, hasError |-> TRUE])

\* the functionResponse part pushed for one call: {result} or {error: message}
MakeFunctionResponse(functionCall, settled) ==
    FunctionResponsePart(functionCall.name,
        IF settled.type = "return"
        THEN [result |-> settled.value, error |-> Null, hasError |-> FALSE]
        ELSE [result |-> Null, error |-> settled.message, hasError |-> TRUE])

\* requiredSections.filter(section => !responseText.includes(section))
MissingSections(responseText, requiredSections) ==
    SelectSeq(requiredSections, LAMBDA section : ~Includes(responseText, section))

\* validateResponseAgainstTemplate(responseText, schemaConfig)
validateResponseAgainstTemplate(responseText, schemaConfig) ==
    IF ~schemaConfig.defined
    THEN [valid |-> TRUE, missingSections |-> <<>>]
    ELSE LET missingSections == MissingSections(responseText, schemaConfig.required_sections)
         IN  [valid |-> (Len(missingSections) = 0), missingSections |-> missingSections]

\* [augmentedMessage, ...hintBlocks].join: the routing hint block is always there,
\* the response format block only with a schema
CombinedMessage(userMessage, schemaConfig) ==
    userMessage \o <<"[ROUTING_HINT]">> \o
    (IF schemaConfig.defined THEN <<"[RESPONSE_FORMAT]">> ELSE <<>>)

\* const correctionPrompt = [...].join('\n')
CorrectionPrompt(schemaConfig, missingSections) ==
    <<"Your previous response did not follow the required Markdown template for",
      schemaConfig.query_type, "Missing sections:">> \o missingSections \o
    <<"Please resend the answer">>

WarningWithoutList(text, missingSections) == text \o <<"WARNING", "Missing:">>

\* `${finalText}\n\nWARNING: ... Missing: ${missingList}`
WarningText(text, missingSections) ==
    text \o <<"WARNING", "Missing:">> \o missingSections

KeepsLastIteration(aggregated, iteration) == iteration

\* aggregatedToolCalls.concat(iterationToolCalls)
ConcatToolCalls(aggregated, iteration) == aggregated \o iteration

ValidatesAgainstDefault(text, schemaConfig, att) ==
    LET schema == IF schemaConfig.defined THEN schemaConfig
                  ELSE [defined |-> TRUE, query_type |-> "default",
                        required_sections |-> <<"A", "B">>]
        v == validateResponseAgainstTemplate(text, schema)
    IN  IF v.valid THEN [validationResult |-> v, decision |-> "accept"]
        ELSE IF att = MAX_FORMAT_RETRIES THEN [validationResult |-> v, decision |-> "warn"]
        ELSE [validationResult |-> v, decision |-> "retry"]

\* lines 750-769 of chat(): what happens to the final text of an attempt
EnforceTemplate(text, schemaConfig, att) ==
    IF ~schemaConfig.defined
    THEN [validationResult |-> [valid |-> TRUE, missingSections |-> <<>>], decision |-> "accept"]
    ELSE LET v == validateResponseAgainstTemplate(text, schemaConfig)
         IN  IF v.valid THEN [validationResult |-> v, decision |-> "accept"]
             ELSE IF att = MAX_FORMAT_RETRIES THEN [validationResult |-> v, decision |-> "warn"]
             ELSE [validationResult |-> v, decision |-> "retry"]

----------------------------------------------------------------------------
(* History variable: the events of the current turn *)

NoCall == FunctionCallPart(Null, Null)
NoOutcome == [type |-> "none", value |-> Null, message |-> Null]

Event(type, att, parts, call, outcome) ==
    [type |-> type, attempt |-> att, parts |-> parts, call |-> call, outcome |-> outcome]

SendEvent(att, parts) == Event("send", att, parts, NoCall, NoOutcome)
ResponseEvent(att, parts) == Event("response", att, parts, NoCall, NoOutcome)
ExecEvent(att, call, settled) == Event("exec", att, <<>>, call, settled)
FinalEvent(att, text) == Event("final", att, <<TextPart(text)>>, NoCall, NoOutcome)
CorrectionEvent(att, text) == Event("correction", att, <<TextPart(text)>>, NoCall, NoOutcome)
RejectEvent(att) == Event("reject", att, <<>>, NoCall, NoOutcome)

----------------------------------------------------------------------------
(* State machine *)

NoReturn == [text |-> <<>>, toolCalls |-> <<>>,
             formatValidation |-> [valid |-> TRUE, missingSections |-> <<>>]]

ChatInit ==
    /\ pc = "idle"
    /\ conversationHistory = <<>>
    /\ responseSchema = NoSchema
    /\ attempt = 0
    /\ pendingMessage = <<>>
    /\ finalText = <<>>
    /\ aggregatedToolCalls = <<>>
    /\ iterationToolCalls = <<>>
    /\ validationResult = [valid |-> TRUE, missingSections |-> <<>>]
    /\ response = <<>>
    /\ functionCalls = <<>>
    /\ functionResponses = <<>>
    /\ callIndex = 0
    /\ returnValue = NoReturn
    /\ events = <<>>
    /\ turn = 0
    /\ toolCallsIssued = 0
    /\ historyAtTurnStart = <<>>
    /\ modelHistory = <<>>

\* no server of part_004 runs beside the orchestrator
StoreIdle ==
    /\ conversations = <<>>
    /\ savedFile = <<>>
    /\ requests = <<>>
    /\ saveFailures = 0
    /\ turnsStarted = 0

\* no message with the moodboard trigger is under way
MoodboardIdle ==
    /\ moodboardPc = "idle"
    /\ userInput = Null
    /\ defaultSource = Null
    /\ moodboardPreparation = Null
    /\ pendingMoodboard = Null
    /\ moodboardHistory = <<>>

\* no text is being parsed
MatrixIdle ==
    /\ matrixPc = "idle"
    /\ markdownText = <<>>
    /\ trendRows = <<>>

\* no client is connected
SocketIdle == socket = [readyState |-> "CLOSED", sent |-> <<>>, chunks |-> 0]

\* a provider error, as the model endpoint raises it; throttled and suggestedMs
\* say what the provider meant by it (0: no delay suggested)
ProviderError(status, statusText, message, retryDelay, throttled, suggestedMs) ==
    [status |-> status, statusText |-> statusText, message |-> message,
     retryDelay |-> retryDelay, throttled |-> throttled, suggestedMs |-> suggestedMs]

NoRetryDelay == [kind |-> "none", value |-> 0, seconds |-> 0, nanos |-> 0]

NoError == ProviderError(0, <<>>, <<>>, NoRetryDelay, FALSE, 0)

\* no model invocation is wrapped yet
GuardIdle ==
    guard = [pc |-> "idle", invocations |-> 0, retries |-> 0, events |-> <<>>,
             notifications |-> <<>>, waits |-> <<>>, lastError |-> NoError,
             thrown |-> NoError, result |-> Null]

\* no response is being streamed
AggregatorIdle == aggregator = [pc |-> "idle", chunks |-> <<>>, parts |-> <<>>]

Report(id, checksum, title) == [id |-> id, checksum |-> checksum, title |-> title]

NoReport == Report(Null, Null, Null)

\* ensureStoreFile: the store file starts with reports: []
ReportStoreIdle ==
    reportStore = [reports |-> <<>>, previous |-> <<>>, report |-> NoReport,
                   wasUpdated |-> FALSE, upserts |-> 0]

\* no method of the store has been called from outside a turn
StoreCallIdle == storeCall = [op |-> "none"]

ChatsIdle == chats = <<>>

BoundaryIdle == boundary = [op |-> "none"]

SseIdle == sse = [op |-> "none"]

LastIdle == ChatsIdle /\ BoundaryIdle /\ SseIdle

LaterIdle ==
    SocketIdle /\ GuardIdle /\ AggregatorIdle /\ ReportStoreIdle /\ StoreCallIdle /\ LastIdle

Init == ChatInit /\ StoreIdle /\ MoodboardIdle /\ MatrixIdle /\ LaterIdle

\* chat(userMessage) up to the first await chat.sendMessage(pendingMessage)
ChatStart(userMessage, schemaConfig) ==
    /\ UNCHANGED restVars
    /\ pc = "idle"
    /\ turn < MaxTurns
    /\ turn + toolCallsIssued <= MaxToolCalls
    /\ LET combinedMessage == CombinedMessage(userMessage, schemaConfig)
       IN  /\ conversationHistory' =
                Append(conversationHistory, Message("user", <<TextPart(combinedMessage)>>))
           /\ pendingMessage' = <<TextPart(combinedMessage)>>
           /\ events' = <<SendEvent(0, <<TextPart(combinedMessage)>>)>>
    /\ responseSchema' = schemaConfig
    /\ attempt' = 0
    /\ finalText' = <<>>
    /\ aggregatedToolCalls' = <<>>
    /\ iterationToolCalls' = <<>>
    /\ validationResult' = [valid |-> TRUE, missingSections |-> <<>>]
    /\ response' = <<>>
    /\ functionCalls' = <<>>
    /\ functionResponses' = <<>>
    /\ callIndex' = 0
    /\ turn' = turn + 1
    /\ pc' = "sendMessage"
    /\ returnValue' = NoReturn
    /\ historyAtTurnStart' = conversationHistory
    /\ UNCHANGED <<toolCallsIssued, modelHistory>>

\* chat.sendMessage rejects, or the response has no candidates[0].content.parts:
\* the exception leaves chat()
SendMessageFails ==
    /\ UNCHANGED <<restVars, historyAtTurnStart, modelHistory>>
    /\ pc = "sendMessage"
    /\ pc' = "rejected"
    /\ events' = Append(events, RejectEvent(attempt))
    /\ UNCHANGED <<conversationHistory, responseSchema, attempt, pendingMessage, finalText,
                   aggregatedToolCalls, iterationToolCalls, validationResult, response,
                   functionCalls, functionResponses, callIndex, returnValue, turn,
                   toolCallsIssued>>

\* the model answers with function calls: the inner while loop is entered, up to
\* the first await this.executeToolCall(...)
ModelRequestsTools(parts) ==
    /\ UNCHANGED <<restVars, historyAtTurnStart, modelHistory>>
    /\ pc = "sendMessage"
    /\ SomeFunctionCall(parts)
    /\ (turn - 1) + toolCallsIssued
         + Len(SelectSeq(parts, LAMBDA p : p.kind = "functionCall")) <= MaxToolCalls
    /\ response' = parts
    /\ functionCalls' = FilterFunctionCalls(parts)
    /\ functionResponses' = <<>>
    /\ callIndex' = 1
    /\ toolCallsIssued' = toolCallsIssued + Len(SelectSeq(parts, LAMBDA p : p.kind = "functionCall"))
    /\ events' = Append(events, ResponseEvent(attempt, parts))
    /\ pc' = "executeToolCall"
    /\ UNCHANGED <<conversationHistory, responseSchema, attempt, pendingMessage, finalText,
                   aggregatedToolCalls, iterationToolCalls, validationResult, returnValue, turn>>

\* one await this.executeToolCall(...) settles: the body of the for..of loop, and
\* after the last call the two history pushes and the next chat.sendMessage
ToolCallSettles(outcome) ==
    /\ UNCHANGED <<restVars, historyAtTurnStart, modelHistory>>
    /\ pc = "executeToolCall"
    /\ LET functionCall == functionCalls[callIndex]
           settled == executeToolCall(functionCall.name, functionCall.args, outcome)
           toolCall == ResolveToolCall(functionCall, settled)
           responses == Append(functionResponses, MakeFunctionResponse(functionCall, settled))
       IN  /\ iterationToolCalls' = Append(iterationToolCalls, toolCall)
           /\ functionResponses' = responses
           /\ IF callIndex < Len(functionCalls)
              THEN /\ callIndex' = callIndex + 1
                   /\ events' = Append(events, ExecEvent(attempt, functionCall, settled))
                   /\ UNCHANGED <<pc, conversationHistory, pendingMessage>>
              ELSE /\ callIndex' = 0
                   /\ conversationHistory' = conversationHistory \o
                        << Message("model", response), Message("function", responses) >>
                   /\ pendingMessage' = responses
                   /\ events' = events \o << ExecEvent(attempt, functionCall, settled),
                                              SendEvent(attempt, responses) >>
                   /\ pc' = "sendMessage"
    /\ UNCHANGED <<responseSchema, attempt, finalText, aggregatedToolCalls, validationResult,
                   response, functionCalls, returnValue, turn, toolCallsIssued>>

\* mutant: the history gets the text that chat() returns
PushesReturnedText(history, text, returnedText) ==
    Append(history, Message("model", <<TextPart(returnedText)>>))

\* this.conversationHistory.push({role: 'model', parts: [{text: finalText}]}),
\* before the text is validated and before the warning is added to it
PushFinalText(history, text, returnedText) ==
    Append(history, Message("model", <<TextPart(text)>>))

\* the model answers without function calls: the rest of the attempt, which ends
\* in the return of chat() or in the corrective chat.sendMessage
ModelAnswers(parts) ==
    /\ UNCHANGED <<restVars, historyAtTurnStart, modelHistory>>
    /\ pc = "sendMessage"
    /\ ~SomeFunctionCall(parts)
    /\ LET text == ResponseText(parts)
           aggregated == ConcatToolCalls(aggregatedToolCalls, iterationToolCalls)
           enforced == EnforceTemplate(text, responseSchema, attempt)
           retried == enforced.decision = "retry" /\ attempt + 1 <= MAX_FORMAT_RETRIES
           correctionPrompt == CorrectionPrompt(responseSchema, enforced.validationResult.missingSections)
           returnedText == IF enforced.decision = "warn"
                           THEN WarningText(text, enforced.validationResult.missingSections)
                           ELSE text
           history1 == PushFinalText(conversationHistory, text, returnedText)
       IN  /\ response' = parts
           /\ aggregatedToolCalls' = aggregated
           /\ validationResult' = enforced.validationResult
           /\ IF enforced.decision = "retry"
              THEN /\ attempt' = attempt + 1
                   /\ conversationHistory' =
                        Append(history1, Message("user", <<TextPart(correctionPrompt)>>))
                   /\ pendingMessage' = <<TextPart(correctionPrompt)>>
                   /\ finalText' = text
                   /\ iterationToolCalls' = <<>>
                   /\ IF retried
                      THEN /\ pc' = "sendMessage"
                           /\ events' = events \o
                                << ResponseEvent(attempt, parts), FinalEvent(attempt, text),
                                   CorrectionEvent(attempt, correctionPrompt),
                                   SendEvent(attempt + 1, <<TextPart(correctionPrompt)>>) >>
                           /\ UNCHANGED returnValue
                      ELSE /\ pc' = "returned"
                           /\ events' = events \o
                                << ResponseEvent(attempt, parts), FinalEvent(attempt, text),
                                   CorrectionEvent(attempt, correctionPrompt) >>
                           /\ returnValue' = [text |-> text, toolCalls |-> aggregated,
                                              formatValidation |-> enforced.validationResult]
              ELSE /\ conversationHistory' = history1
                   /\ finalText' = returnedText
                   /\ pc' = "returned"
                   /\ events' = events \o
                        << ResponseEvent(attempt, parts), FinalEvent(attempt, text) >>
                   /\ returnValue' = [text |-> returnedText, toolCalls |-> aggregated,
                                      formatValidation |-> enforced.validationResult]
                   /\ UNCHANGED <<attempt, pendingMessage, iterationToolCalls>>
    /\ UNCHANGED <<responseSchema, functionCalls, functionResponses, callIndex, turn,
                   toolCallsIssued>>

\* mutant: the snapshot is written at the end of the try block only
SnapshotOnSuccess(outcome, snapshot, stored) ==
    IF outcome = "returned" THEN snapshot ELSE stored

\* the history the caller holds for the conversation once chat() has settled:
\* runConversationTurn writes the snapshot in its finally block, after the return
\* of the try block and after the throw of the catch block alike
PersistSnapshot(outcome, snapshot, stored) == snapshot

\* the caller of chat() has its result or its exception and the locals of the
\* call are gone; the caller persists the history, and the orchestrator keeps it
\* for the next chat()
TurnSettled ==
    /\ UNCHANGED <<restVars, historyAtTurnStart>>
    /\ modelHistory' = PersistSnapshot(pc, conversationHistory, modelHistory)
    /\ pc \in {"returned", "rejected"}
    /\ pc' = "idle"
    /\ responseSchema' = NoSchema
    /\ attempt' = 0
    /\ pendingMessage' = <<>>
    /\ finalText' = <<>>
    /\ aggregatedToolCalls' = <<>>
    /\ iterationToolCalls' = <<>>
    /\ validationResult' = [valid |-> TRUE, missingSections |-> <<>>]
    /\ response' = <<>>
    /\ functionCalls' = <<>>
    /\ functionResponses' = <<>>
    /\ callIndex' = 0
    /\ returnValue' = NoReturn
    /\ events' = <<>>
    /\ UNCHANGED <<conversationHistory, turn, toolCallsIssued>>

Next ==
    \/ \E m \in UserMessages, s \in SchemaConfigs : ChatStart(m, s)
    \/ SendMessageFails
    \/ \E parts \in ToolResponses : ModelRequestsTools(parts)
    \/ \E outcome \in ToolOutcomes : ToolCallSettles(outcome)
    \/ \E parts \in TextResponses : ModelAnswers(parts)
    \/ TurnSettled

Spec == Init /\ [][Next]_vars

----------------------------------------------------------------------------
(* Vocabulary of the properties *)

CallsIn(parts) == SelectSeq(parts, LAMBDA p : p.kind = "functionCall")

HasCalls(message) == message.role = "model" /\ CallsIn(message.parts) # <<>>

EventIndexes(type) == {i \in DOMAIN events : events[i].type = type}

Contains(text, token) == \E i \in DOMAIN text : text[i] = token

MissingFrom(text, sections) == SelectSeq(sections, LAMBDA section : ~Contains(text, section))

Last(seq) == seq[Len(seq)]

\* the function message msg answers the calls of the model message before it
NameAligned(modelMessage, functionMessage) ==
    LET calls == CallsIn(modelMessage.parts)
    IN  /\ functionMessage.role = "function"
        /\ Len(functionMessage.parts) = Len(calls)
        /\ \A k \in DOMAIN calls :
              /\ functionMessage.parts[k].kind = "functionResponse"
              /\ functionMessage.parts[k].name = calls[k].name

----------------------------------------------------------------------------
(* C1: in the conversation history, at every suspension point and after every
   turn, each model message with function calls is directly followed by one
   function message whose functionResponse parts carry the names of those
   calls, in order and in number, and by no second function message; so there
   are as many function messages as model messages with function calls. *)
C1_HistoryInvariant ==
    /\ \A i \in DOMAIN conversationHistory :
          HasCalls(conversationHistory[i]) =>
             /\ i + 1 \in DOMAIN conversationHistory
             /\ NameAligned(conversationHistory[i], conversationHistory[i + 1])
             /\ (i + 2 \in DOMAIN conversationHistory =>
                    conversationHistory[i + 2].role # "function")
    /\ Cardinality({i \in DOMAIN conversationHistory : HasCalls(conversationHistory[i])})
         = Cardinality({i \in DOMAIN conversationHistory : conversationHistory[i].role = "function"})

C1_Witness ==
    /\ pc = "returned"
    /\ \E i \in DOMAIN conversationHistory :
          /\ HasCalls(conversationHistory[i])
          /\ Len(CallsIn(conversationHistory[i].parts)) = 2
          /\ CallsIn(conversationHistory[i].parts)[1].name # CallsIn(conversationHistory[i].parts)[2].name
          /\ conversationHistory[i + 1].role = "function"

(* C2: a model response without function calls ends the tool loop of its
   attempt: nothing of that attempt follows it but the final text and the
   corrective message, no tool runs and the model is not invoked again in that
   attempt, and the text of that response is the final text of the attempt,
   which is the model message appended to the history. *)
C2_LoopEndsAtTextResponse ==
    \A i \in DOMAIN events :
       (events[i].type = "response" /\ CallsIn(events[i].parts) = <<>>) =>
          /\ i + 1 \in DOMAIN events
          /\ events[i + 1].type = "final"
          /\ events[i + 1].attempt = events[i].attempt
          /\ events[i + 1].parts = <<TextPart(events[i].parts[1].text)>>
          /\ \A j \in DOMAIN events :
                (j > i /\ events[j].attempt = events[i].attempt) =>
                   events[j].type \in {"final", "correction"}
          /\ (i + 1 = Len(events) =>
                /\ pc = "returned"
                /\ Last(conversationHistory) = Message("model", events[i + 1].parts)
                /\ SubSeq(returnValue.text, 1, Len(events[i].parts[1].text)) = events[i].parts[1].text)

C2_Witness ==
    /\ pc = "returned"
    /\ EventIndexes("exec") # {}
    /\ Last(events).type = "final"
    /\ Last(events).parts[1].text = <<"A", "B">>

(* C3: a model response with k >= 1 function calls is followed by exactly k
   tool executions, of those calls in their order, and then by the next model
   invocation, which carries k functionResponse parts in that order; the k
   ToolCallRecords of the round are the last k of the attempt, in that order. *)
C3_ExecutesEveryCall ==
    \A i \in DOMAIN events :
       (events[i].type = "response" /\ CallsIn(events[i].parts) # <<>>) =>
          LET calls == CallsIn(events[i].parts)
              k == Len(calls)
          IN  /\ \A j \in 1..k :
                    (i + j \in DOMAIN events) =>
                       /\ events[i + j].type = "exec"
                       /\ events[i + j].call = calls[j]
              /\ (i + k + 1 \in DOMAIN events) =>
                    /\ events[i + k + 1].type = "send"
                    /\ Len(events[i + k + 1].parts) = k
                    /\ \A j \in 1..k :
                          /\ events[i + k + 1].parts[j].kind = "functionResponse"
                          /\ events[i + k + 1].parts[j].name = calls[j].name
              /\ (i + k + 1 = Len(events)) =>
                    /\ pc = "sendMessage"
                    /\ Len(iterationToolCalls) >= k
                    /\ \A j \in 1..k :
                          LET record == iterationToolCalls[Len(iterationToolCalls) - k + j]
                          IN  record.name = calls[j].name /\ record.args = calls[j].args
              /\ (i + k >= Len(events)) =>
                    /\ pc = "executeToolCall"
                    /\ Len(functionResponses) = Len(events) - i
                    /\ callIndex = Len(events) - i + 1

C3_Witness ==
    /\ pc = "sendMessage"
    /\ Len(events) >= 4
    /\ Last(events).type = "send"
    /\ Len(Last(events).parts) = 2
    /\ Last(events).parts[1].kind = "functionResponse"
    /\ Last(events).parts[1].name # Last(events).parts[2].name

(* C4: when a tool execution throws, chat() goes on: the record of that call
   holds the message in error, a functionResponse with that error is queued for
   the model, the next call of the response is executed if there is one, and
   after the last call the model is invoked with the function responses. *)
C4_ToolErrorFedBack ==
    [][ (pc = "executeToolCall" /\ Len(events') > Len(events)
           /\ events'[Len(events) + 1].type = "exec"
           /\ events'[Len(events) + 1].outcome.type = "throw")
        =>
        LET thrown == events'[Len(events) + 1]
        IN  /\ pc' # "rejected"
            /\ Len(iterationToolCalls') = Len(iterationToolCalls) + 1
            /\ Last(iterationToolCalls').name = thrown.call.name
            /\ Last(iterationToolCalls').error = thrown.outcome.message
            /\ Last(iterationToolCalls').error # Null
            /\ Len(functionResponses') = Len(functionResponses) + 1
            /\ Last(functionResponses').name = thrown.call.name
            /\ Last(functionResponses').response.hasError
            /\ Last(functionResponses').response.error = thrown.outcome.message
            /\ (callIndex < Len(functionCalls) =>
                   pc' = "executeToolCall" /\ callIndex' = callIndex + 1)
            /\ (callIndex = Len(functionCalls) =>
                   pc' = "sendMessage" /\ pendingMessage' = functionResponses')
      ]_vars

C4_Witness ==
    /\ pc = "returned"
    /\ Len(returnValue.toolCalls) = 2
    /\ returnValue.toolCalls[1].error = "boom"
    /\ returnValue.toolCalls[2].result = "rows"
    /\ Cardinality(EventIndexes("response")) = 2

(* C5: a function call that names no registered tool aborts the turn: chat()
   rejects, and no ToolCallRecord or functionResponse is made of it. *)
C5_UnknownToolAborts ==
    \A i \in DOMAIN events :
       (events[i].type = "exec" /\ events[i].call.name \notin RegisteredTools) =>
          /\ pc = "rejected"
          /\ \A k \in DOMAIN iterationToolCalls : iterationToolCalls[k].name \in RegisteredTools

(* C6: every ToolCallRecord that chat() returns has exactly one of result and
   error non-null. *)
C6_ExactlyOneOfResultError ==
    pc = "returned" =>
       \A k \in DOMAIN returnValue.toolCalls :
          LET record == returnValue.toolCalls[k]
          IN  /\ (record.result # Null \/ record.error # Null)
              /\ ~(record.result # Null /\ record.error # Null)

(* C7: a turn spends at most one corrective round trip: a final text of the
   first attempt that misses required sections is followed by one corrective
   user message that names them, appended to the history and sent to the model;
   a final text of the second attempt ends the turn, with no second corrective
   message and no third attempt. *)
C7_OneCorrectiveRetry ==
    /\ Cardinality(EventIndexes("correction")) <= 1
    /\ Cardinality(EventIndexes("final")) <= 2
    /\ attempt <= 1
    /\ \A i \in EventIndexes("final") :
          LET missing == MissingFrom(events[i].parts[1].text, responseSchema.required_sections)
          IN  /\ (events[i].attempt = 0 /\ responseSchema.defined /\ missing # <<>>) =>
                    /\ i + 2 \in DOMAIN events
                    /\ events[i + 1].type = "correction"
                    /\ \A k \in DOMAIN missing : Contains(events[i + 1].parts[1].text, missing[k])
                    /\ events[i + 2].type = "send"
                    /\ events[i + 2].attempt = 1
                    /\ events[i + 2].parts = events[i + 1].parts
                    /\ (i + 2 = Len(events) =>
                           /\ pc = "sendMessage"
                           /\ pendingMessage = events[i + 1].parts
                           /\ Last(conversationHistory) = Message("user", events[i + 1].parts))
              /\ (events[i].attempt # 0 \/ ~responseSchema.defined \/ missing = <<>>) =>
                    /\ i = Len(events)
                    /\ pc = "returned"

C7_Witness ==
    /\ pc = "returned"
    /\ Cardinality(EventIndexes("correction")) = 1
    /\ Cardinality(EventIndexes("final")) = 2
    /\ ~returnValue.formatValidation.valid

(* C8: a final text that still misses required sections after the corrective
   retry does not fail the turn: chat() returns with valid = FALSE, with the
   missing sections in missingSections, and with a text that is the model's
   text followed by a suffix that holds WARNING and every missing section. *)
C8_SoftFailure ==
    \A i \in EventIndexes("final") :
       LET text == events[i].parts[1].text
           missing == MissingFrom(text, responseSchema.required_sections)
       IN  (events[i].attempt = 1 /\ responseSchema.defined /\ missing # <<>>) =>
              /\ pc = "returned"
              /\ returnValue.formatValidation = [valid |-> FALSE, missingSections |-> missing]
              /\ Len(returnValue.text) > Len(text)
              /\ SubSeq(returnValue.text, 1, Len(text)) = text
              /\ LET suffix == SubSeq(returnValue.text, Len(text) + 1, Len(returnValue.text))
                 IN  /\ Contains(suffix, "WARNING")
                     /\ \A k \in DOMAIN missing : Contains(suffix, missing[k])

C8_Witness ==
    /\ pc = "returned"
    /\ attempt = 1
    /\ returnValue.formatValidation.valid = FALSE
    /\ returnValue.formatValidation.missingSections = <<"B">>
    /\ Contains(returnValue.text, "WARNING")

(* C9: in a turn without response schema the first final text is accepted: no
   corrective message, no second attempt, and chat() returns that text as it
   is, without WARNING, with valid = TRUE and no missing sections. *)
C9_NoSchemaAccepts ==
    (pc # "idle" /\ ~responseSchema.defined) =>
       /\ attempt = 0
       /\ EventIndexes("correction") = {}
       /\ \A i \in EventIndexes("final") :
             /\ i = Len(events)
             /\ pc = "returned"
             /\ returnValue.text = events[i].parts[1].text
             /\ ~Contains(returnValue.text, "WARNING")
             /\ returnValue.formatValidation = [valid |-> TRUE, missingSections |-> <<>>]
             /\ Last(conversationHistory) = Message("model", events[i].parts)

C9_Witness ==
    /\ pc = "returned"
    /\ ~responseSchema.defined
    /\ returnValue.text = <<"A">>
    /\ returnValue.formatValidation.valid

(* C10: the toolCalls that chat() returns are the records of all tool
   executions of the turn, one per execution and in execution order, over all
   tool rounds and both attempts; there are as many as the model emitted
   functionCall parts in the turn. *)
RECURSIVE CountCalls(_)
CountCalls(evs) ==
    IF evs = <<>> THEN 0
    ELSE (IF Head(evs).type = "response" THEN Len(CallsIn(Head(evs).parts)) ELSE 0)
         + CountCalls(Tail(evs))

C10_AllToolCallsReturned ==
    pc = "returned" =>
       LET execs == SelectSeq(events, LAMBDA e : e.type = "exec")
       IN  /\ Len(returnValue.toolCalls) = Len(execs)
           /\ Len(returnValue.toolCalls) = CountCalls(events)
           /\ \A k \in DOMAIN execs :
                 /\ returnValue.toolCalls[k].name = execs[k].call.name
                 /\ returnValue.toolCalls[k].args = execs[k].call.args
                 /\ (execs[k].outcome.type = "return" =>
                        returnValue.toolCalls[k].result = execs[k].outcome.value)
                 /\ (execs[k].outcome.type = "throw" =>
                        returnValue.toolCalls[k].error = execs[k].outcome.message)

C10_Witness ==
    /\ pc = "returned"
    /\ Len(returnValue.toolCalls) = 2
    /\ \E i, j \in EventIndexes("exec") : events[i].attempt = 0 /\ events[j].attempt = 1
    /\ returnValue.toolCalls[1].name # returnValue.toolCalls[2].name

----------------------------------------------------------------------------
(* The conversation store (backend/src/conversationStore.js) and             *)
(* runConversationTurn of the server (part_004). A request is one caller of  *)
(* runConversationTurn: the POST /api/chat handler or the ws.on('message')   *)
(* handler. Each turn has an Agent of its own; the Agent keeps the model     *)
(* history of the turn in memory between loadConversationHistory and         *)
(* getConversationHistorySnapshot.                                           *)

MaxServerTurns == 2
MaxSaveFailures == 1

Requests == {"http", "ws"}

ConversationIds == {"a", "b"}

\* req.body.conversationId: a known id, none (the default conversation), an unknown id
RequestedConversationIds == ConversationIds \cup {Null, "zz"}

\* tool rounds an agent.chat goes through before it settles
AgentRounds == {0, 1}

MessageTexts == [http |-> "from http", ws |-> "from ws"]

SaveError == "write failed"
ChatError == "chat failed"
NotFoundError == "Conversation not found"

StoredMessage(role, content) == [role |-> role, content |-> content]

AgentMessage(role, text) == [role |-> role, text |-> text]

Conversation(id, messages, history) ==
    [id |-> id, messages |-> messages, modelHistory |-> history]

\* mutant: the first conversation of the list stands for every known id
FirstConversation(convs, id) ==
    IF \E i \in DOMAIN convs : convs[i].id = id THEN 1 ELSE 0

\* index of the conversation in the list, 0 when it is not there
_findConversation(convs, id) ==
    IF \E i \in DOMAIN convs : convs[i].id = id
    THEN CHOOSE i \in DOMAIN convs : convs[i].id = id
    ELSE 0

\* updatedAt = now, then the list is sorted by updatedAt, newest first
_touchConversation(convs, i) ==
    <<convs[i]>> \o SubSeq(convs, 1, i - 1) \o SubSeq(convs, i + 1, Len(convs))

hasConversation(convs, id) == id # Null /\ _findConversation(convs, id) # 0

getDefaultConversationId(convs) == IF convs = <<>> THEN Null ELSE convs[1].id

\* the id of the turn's conversation, or the exception of an unknown id; the list
\* is never empty (the constructor and deleteConversation see to that), so the
\* createConversation branch is not taken
ensureConversationId(convs, conversationId) ==
    IF conversationId # Null
    THEN IF hasConversation(convs, conversationId)
         THEN [threw |-> FALSE, id |-> conversationId]
         ELSE [threw |-> TRUE, id |-> Null]
    ELSE [threw |-> FALSE, id |-> getDefaultConversationId(convs)]

getModelHistory(convs, id) ==
    LET i == _findConversation(convs, id)
    IN  IF i = 0 THEN <<>> ELSE convs[i].modelHistory

\* a message payload that is not an object (null, a string)
NotAnObject == [role |-> "(not an object)", content |-> Null]

InvalidPayloadError == "Invalid message payload"

\* mutant: every role but error is stored
AnyRole(message) ==
    IF message = NotAnObject THEN [valid |-> FALSE, entry |-> NotAnObject]
    ELSE [valid |-> TRUE,
          entry |-> StoredMessage(IF message.role = Null THEN "assistant" ELSE message.role,
                                  message.content)]

\* the entry made of a payload, or null (valid FALSE): the role defaults to
\* assistant, an error entry is made, any other role than user and assistant is
\* refused
_normalizeMessage(message) ==
    IF message = NotAnObject THEN [valid |-> FALSE, entry |-> NotAnObject]
    ELSE LET role == IF message.role = Null THEN "assistant" ELSE message.role
         IN  IF role \in {"error", "user", "assistant"}
             THEN [valid |-> TRUE, entry |-> StoredMessage(role, message.content)]
             ELSE [valid |-> FALSE, entry |-> NotAnObject]

\* mutant: a message for a conversation that is gone goes to the default one
AppendsToDefault(convs, id, message) ==
    LET found == _findConversation(convs, id)
        i == IF found = 0 THEN 1 ELSE found
        normalized == _normalizeMessage(message)
    IN  IF ~normalized.valid
        THEN [threw |-> TRUE, saves |-> FALSE, conversations |-> convs,
              error |-> InvalidPayloadError, entry |-> NotAnObject]
        ELSE IF normalized.entry.role = "error"
        THEN [threw |-> FALSE, saves |-> FALSE, conversations |-> convs,
              error |-> Null, entry |-> normalized.entry]
        ELSE [threw |-> FALSE, saves |-> TRUE,
              conversations |->
                 _touchConversation(
                    [convs EXCEPT ![i].messages = Append(@, normalized.entry)], i),
              error |-> Null, entry |-> normalized.entry]

\* mutant: an error entry is stored like the others
StoresErrorEntries(convs, id, message) ==
    LET i == _findConversation(convs, id)
        normalized == _normalizeMessage(message)
    IN  IF i = 0
        THEN [threw |-> TRUE, saves |-> FALSE, conversations |-> convs,
              error |-> NotFoundError, entry |-> NotAnObject]
        ELSE IF ~normalized.valid
        THEN [threw |-> TRUE, saves |-> FALSE, conversations |-> convs,
              error |-> InvalidPayloadError, entry |-> NotAnObject]
        ELSE [threw |-> FALSE, saves |-> TRUE,
              conversations |->
                 _touchConversation(
                    [convs EXCEPT ![i].messages = Append(@, normalized.entry)], i),
              error |-> Null, entry |-> normalized.entry]

\* the list after appendMessage, before its _save(); an error entry is returned
\* to the caller and not stored
appendMessage(convs, id, message) ==
    LET i == _findConversation(convs, id)
        normalized == _normalizeMessage(message)
    IN  IF i = 0
        THEN [threw |-> TRUE, saves |-> FALSE, conversations |-> convs,
              error |-> NotFoundError, entry |-> NotAnObject]
        ELSE IF ~normalized.valid
        THEN [threw |-> TRUE, saves |-> FALSE, conversations |-> convs,
              error |-> InvalidPayloadError, entry |-> NotAnObject]
        ELSE IF normalized.entry.role = "error"
        THEN [threw |-> FALSE, saves |-> FALSE, conversations |-> convs,
              error |-> Null, entry |-> normalized.entry]
        ELSE [threw |-> FALSE, saves |-> TRUE,
              conversations |->
                 _touchConversation(
                    [convs EXCEPT ![i].messages = Append(@, normalized.entry)], i),
              error |-> Null, entry |-> normalized.entry]

\* mutant: the snapshot is added to the stored history
AppendsModelHistory(convs, id, history) ==
    LET i == _findConversation(convs, id)
    IN  IF i = 0 THEN [threw |-> TRUE, saves |-> FALSE, conversations |-> convs]
        ELSE [threw |-> FALSE, saves |-> TRUE,
              conversations |->
                 _touchConversation([convs EXCEPT ![i].modelHistory = @ \o history], i)]

\* the list after setModelHistory, before its _save()
setModelHistory(convs, id, history) ==
    LET i == _findConversation(convs, id)
    IN  IF i = 0 THEN [threw |-> TRUE, saves |-> FALSE, conversations |-> convs]
        ELSE [threw |-> FALSE, saves |-> TRUE,
              conversations |->
                 _touchConversation([convs EXCEPT ![i].modelHistory = history], i)]

\* _save(): writeFileSync puts the whole list into the file, or throws
_save(convs, file, ok) == IF ok THEN convs ELSE file

\* Agent.loadConversationHistory(history): the agent starts from a copy of it
loadConversationHistory(history) == history

\* Agent.getConversationHistorySnapshot(): a copy of the agent's history
getConversationHistorySnapshot(agentHistory) == agentHistory

\* the history of the agent when agent.chat(messageText) settles: the user message
\* is appended first, then the model message and the function message of each
\* tool round, and the final model message when chat resolves; a chat that
\* rejects has got as far as pushed and rounds say
AgentChat(agentHistory, messageText, pushed, rounds, resolved) ==
    LET round == <<AgentMessage("model", "call"), AgentMessage("function", "result")>>
        pairs == IF rounds = 0 THEN <<>> ELSE round
    IN  agentHistory
        \o (IF pushed THEN <<AgentMessage("user", messageText)>> ELSE <<>>)
        \o pairs
        \o (IF resolved THEN <<AgentMessage("model", "answer")>> ELSE <<>>)

\* mutant: an exception of the finally block is swallowed
SwallowsSnapshotError(chatResolved, appendError, catchError, snapshotError) ==
    IF catchError # Null THEN [pc |-> "rejected", error |-> catchError]
    ELSE IF ~chatResolved THEN [pc |-> "rejected", error |-> ChatError]
    ELSE IF appendError # Null THEN [pc |-> "rejected", error |-> appendError]
    ELSE [pc |-> "returned", error |-> Null]

\* how try / catch / finally of runConversationTurn complete, given what the
\* appendMessage of the try block, the appendMessage of the catch block and the
\* setModelHistory of the finally block threw (Null: nothing): an exception of
\* the finally block replaces the return value and the exception of the catch
\* block; an exception of appendMessage in the catch block replaces the error
\* the block was about to rethrow
TurnCompletion(chatResolved, appendError, catchError, snapshotError) ==
    IF snapshotError # Null THEN [pc |-> "rejected", error |-> snapshotError]
    ELSE IF catchError # Null THEN [pc |-> "rejected", error |-> catchError]
    ELSE IF ~chatResolved THEN [pc |-> "rejected", error |-> ChatError]
    ELSE IF appendError # Null THEN [pc |-> "rejected", error |-> appendError]
    ELSE [pc |-> "returned", error |-> Null]

IdleRequest ==
    [pc |-> "idle", targetConversationId |-> Null, messageText |-> Null,
     history |-> <<>>, agentHistory |-> <<>>, userPushed |-> FALSE, rounds |-> 0,
     chatOutcome |-> "none", loads |-> 0, snapshotWrites |-> 0, writtenSnapshot |-> <<>>,
     snapshotSaved |-> FALSE, storeThrew |-> FALSE, error |-> Null]

StoreInit ==
    /\ conversations = <<Conversation("a", <<>>, <<>>), Conversation("b", <<>>, <<>>)>>
    /\ savedFile = conversations
    /\ requests = [r \in Requests |-> IdleRequest]
    /\ saveFailures = 0
    /\ turnsStarted = 0

InitTurn == ChatInit /\ StoreInit /\ MoodboardIdle /\ MatrixIdle /\ LaterIdle

\* runConversationTurn up to await agent.chat(messageText)
TurnBegins(r, conversationId, saveOk) ==
    /\ requests[r].pc = "idle"
    /\ turnsStarted < MaxServerTurns
    /\ turnsStarted' = turnsStarted + 1
    /\ saveOk \/ saveFailures < MaxSaveFailures
    /\ LET ensured == ensureConversationId(conversations, conversationId)
           id == ensured.id
           history == getModelHistory(conversations, id)
           appended == appendMessage(conversations, id,
                                     StoredMessage("user", MessageTexts[r]))
           started == [requests[r] EXCEPT
                          !.targetConversationId = id,
                          !.messageText = MessageTexts[r],
                          !.history = history,
                          !.agentHistory = loadConversationHistory(history),
                          !.loads = 1]
       IN  IF ensured.threw
           THEN /\ saveOk
                /\ requests' = [requests EXCEPT ![r].pc = "rejected",
                                                ![r].error = NotFoundError]
                /\ UNCHANGED <<conversations, savedFile, saveFailures>>
           ELSE /\ conversations' = appended.conversations
                /\ savedFile' = _save(appended.conversations, savedFile, saveOk)
                /\ saveFailures' = IF saveOk THEN saveFailures ELSE saveFailures + 1
                /\ requests' =
                     [requests EXCEPT ![r] =
                        IF saveOk
                        THEN [started EXCEPT !.pc = "chat"]
                        ELSE [started EXCEPT !.pc = "rejected", !.storeThrew = TRUE,
                                             !.error = SaveError]]
    /\ UNCHANGED nonStoreVars

\* agent.chat resolves: the rest of the try block and the finally block
TurnEndsAfterChatResolved(r, rounds, appendOk, snapshotOk) ==
    /\ requests[r].pc = "chat"
    /\ saveFailures + (IF appendOk THEN 0 ELSE 1) + (IF snapshotOk THEN 0 ELSE 1)
          <= MaxSaveFailures
    /\ \E id \in {requests[r].targetConversationId},
          agentHistory \in {AgentChat(requests[r].agentHistory, requests[r].messageText,
                                     TRUE, rounds, TRUE)} :
       \E appended \in {appendMessage(conversations, id,
                                      StoredMessage("assistant", "answer"))} :
       \* catch: the error entry is built and not stored
       \E caught \in {IF appended.threw \/ ~appendOk
                      THEN appendMessage(appended.conversations, id,
                                         StoredMessage("error", SaveError))
                      ELSE appended} :
       \E written \in {setModelHistory(caught.conversations, id,
                                       getConversationHistorySnapshot(agentHistory))} :
       LET appendThrew == appended.threw \/ ~appendOk
           appendError == IF appended.threw THEN appended.error
                          ELSE IF ~appendOk THEN SaveError ELSE Null
           catchError == IF appendThrew /\ caught.threw THEN caught.error ELSE Null
           file1 == IF appended.saves
                    THEN _save(appended.conversations, savedFile, appendOk)
                    ELSE savedFile
           snapshotThrew == written.threw \/ ~snapshotOk
           snapshotError == IF written.threw THEN NotFoundError
                            ELSE IF ~snapshotOk THEN SaveError ELSE Null
           completion == TurnCompletion(TRUE, appendError, catchError, snapshotError)
       IN  /\ appended.saves \/ appendOk
           /\ written.saves \/ snapshotOk
           /\ conversations' = written.conversations
           /\ savedFile' = IF written.saves
                           THEN _save(written.conversations, file1, snapshotOk)
                           ELSE file1
           /\ saveFailures' = saveFailures + (IF appendOk THEN 0 ELSE 1)
                                           + (IF snapshotOk THEN 0 ELSE 1)
           /\ requests' = [requests EXCEPT
                ![r].pc = completion.pc,
                ![r].error = completion.error,
                ![r].agentHistory = agentHistory,
                ![r].userPushed = TRUE,
                ![r].rounds = rounds,
                ![r].chatOutcome = "resolved",
                ![r].snapshotWrites = @ + 1,
                ![r].writtenSnapshot = getModelHistory(written.conversations, id),
                ![r].snapshotSaved = ~snapshotThrew,
                ![r].storeThrew = appendThrew \/ snapshotThrew]
    /\ UNCHANGED <<turnsStarted, nonStoreVars>>

\* agent.chat rejects: the catch block and the finally block
TurnEndsAfterChatRejected(r, pushed, rounds, snapshotOk) ==
    /\ requests[r].pc = "chat"
    /\ pushed \/ rounds = 0
    /\ snapshotOk \/ saveFailures < MaxSaveFailures
    /\ \E id \in {requests[r].targetConversationId},
          agentHistory \in {AgentChat(requests[r].agentHistory, requests[r].messageText,
                                     pushed, rounds, FALSE)} :
       \E caught \in {appendMessage(conversations, id,
                                    StoredMessage("error", ChatError))} :
       \E written \in {setModelHistory(caught.conversations, id,
                                       getConversationHistorySnapshot(agentHistory))} :
       LET snapshotThrew == written.threw \/ ~snapshotOk
           catchError == IF caught.threw THEN caught.error ELSE Null
           snapshotError == IF written.threw THEN NotFoundError
                            ELSE IF ~snapshotOk THEN SaveError ELSE Null
           completion == TurnCompletion(FALSE, Null, catchError, snapshotError)
       IN  /\ written.saves \/ snapshotOk
           /\ conversations' = written.conversations
           /\ savedFile' = IF written.saves
                           THEN _save(written.conversations, savedFile, snapshotOk)
                           ELSE savedFile
           /\ saveFailures' = saveFailures + (IF snapshotOk THEN 0 ELSE 1)
           /\ requests' = [requests EXCEPT
                ![r].pc = completion.pc,
                ![r].error = completion.error,
                ![r].agentHistory = agentHistory,
                ![r].userPushed = pushed,
                ![r].rounds = rounds,
                ![r].chatOutcome = "rejected",
                ![r].snapshotWrites = @ + 1,
                ![r].writtenSnapshot = getModelHistory(written.conversations, id),
                ![r].snapshotSaved = ~snapshotThrew,
                ![r].storeThrew = snapshotThrew]
    /\ UNCHANGED <<turnsStarted, nonStoreVars>>

\* the handler has answered (res.json, ws.send) and takes the next message
RequestSettled(r) ==
    /\ requests[r].pc \in {"returned", "rejected"}
    /\ requests' = [requests EXCEPT ![r] = IdleRequest]
    /\ UNCHANGED <<conversations, savedFile, saveFailures, turnsStarted, nonStoreVars>>

NextTurn ==
    \/ \E r \in Requests, conversationId \in RequestedConversationIds, saveOk \in BOOLEAN :
          TurnBegins(r, conversationId, saveOk)
    \/ \E r \in Requests, rounds \in AgentRounds, appendOk \in BOOLEAN,
          snapshotOk \in BOOLEAN :
          TurnEndsAfterChatResolved(r, rounds, appendOk, snapshotOk)
    \/ \E r \in Requests, pushed \in BOOLEAN, rounds \in AgentRounds,
          snapshotOk \in BOOLEAN :
          TurnEndsAfterChatRejected(r, pushed, rounds, snapshotOk)
    \/ \E r \in Requests : RequestSettled(r)

SpecTurn == InitTurn /\ [][NextTurn]_vars

----------------------------------------------------------------------------
(* Properties of runConversationTurn *)

IsPrefix(s, t) == Len(s) <= Len(t) /\ SubSeq(t, 1, Len(s)) = s

\* the stored record of a conversation, whatever its place in the list
StoredConversation(convs, id) == convs[CHOOSE i \in DOMAIN convs : convs[i].id = id]

\* the turn of request r has run its agent to the end of chat()
ChatSettled(r) == requests[r].chatOutcome # "none"

(* C11: a turn reads the model history of its conversation from the store once,
   before its agent runs, and the agent starts from that history; while the
   agent runs nothing is written back; when chat() has resolved or rejected
   the turn has called setModelHistory exactly once, and the model history the
   store then holds for the conversation is the agent's history at that
   moment. *)
C11_LoadThenSnapshotOnce ==
    \A r \in Requests :
       /\ requests[r].pc = "chat" =>
             /\ requests[r].loads = 1
             /\ requests[r].snapshotWrites = 0
             /\ requests[r].agentHistory = requests[r].history
       /\ ChatSettled(r) =>
             /\ requests[r].pc \in {"returned", "rejected"}
             /\ requests[r].loads = 1
             /\ requests[r].snapshotWrites = 1
             /\ IsPrefix(requests[r].history, requests[r].agentHistory)
             /\ requests[r].writtenSnapshot = requests[r].agentHistory

C11_Witness ==
    /\ requests["http"].chatOutcome = "resolved"
    /\ requests["http"].pc = "returned"
    /\ requests["ws"].chatOutcome = "rejected"
    /\ requests["ws"].rounds = 1
    /\ requests["ws"].targetConversationId = requests["http"].targetConversationId
    /\ requests["ws"].history # <<>>
    /\ requests["ws"].snapshotWrites = 1

(* C12: two turns on one conversation never overlap: while a turn is between
   its load of the model history and its write of the final snapshot, no other
   turn on that conversation is between its own load and write. *)
C12_TurnsSerialized ==
    \A r1, r2 \in Requests :
       (r1 # r2 /\ requests[r1].pc = "chat" /\ requests[r2].pc = "chat") =>
          requests[r1].targetConversationId # requests[r2].targetConversationId

(* C13, as the spec states it: a step of a turn changes nothing of the store
   outside the record of its own conversation, so neither the messages and
   model history of another conversation nor the conversation that a request
   without conversationId resolves to. *)
C13_NoSharedMutableState ==
    [][\A r \in Requests :
          (requests'[r] # requests[r] /\ requests'[r].targetConversationId # Null) =>
             /\ \A id \in ConversationIds :
                   id # requests'[r].targetConversationId =>
                      StoredConversation(conversations', id) = StoredConversation(conversations, id)
             /\ (getDefaultConversationId(conversations) # requests'[r].targetConversationId =>
                   getDefaultConversationId(conversations') = getDefaultConversationId(conversations))
      ]_vars

(* C13, amended: a step of a turn on conversation A leaves the messages and the
   model history of every other conversation unchanged, and with them the
   history that a turn bound to another conversation reads and writes; the
   order of the list, and so the default conversation, is shared and changes. *)
C13_OtherConversationsUnchanged ==
    [][\A r \in Requests :
          (requests'[r] # requests[r] /\ requests'[r].targetConversationId # Null) =>
             /\ \A id \in ConversationIds :
                   id # requests'[r].targetConversationId =>
                      /\ StoredConversation(conversations', id) = StoredConversation(conversations, id)
                      /\ getModelHistory(conversations', id) = getModelHistory(conversations, id)
             /\ \A q \in Requests : q # r => requests'[q] = requests[q]
      ]_vars

C13_Witness ==
    /\ requests["http"].pc = "returned"
    /\ requests["http"].targetConversationId = "a"
    /\ requests["ws"].pc = "chat"
    /\ requests["ws"].targetConversationId = "b"
    /\ StoredConversation(conversations, "a").modelHistory # <<>>
    /\ StoredConversation(conversations, "b").modelHistory = <<>>
    /\ Len(StoredConversation(conversations, "b").messages) = 1

(* C14: a store call that throws ends the turn with that exception: a turn
   whose store call threw is rejected with the store's error, and a turn that
   returns has had no store call throw and has written its final snapshot to
   the file. *)
C14_StoreFailureIsFatal ==
    \A r \in Requests :
       /\ requests[r].storeThrew =>
             /\ requests[r].pc = "rejected"
             /\ requests[r].error = SaveError
       /\ requests[r].pc = "returned" =>
             /\ ~requests[r].storeThrew
             /\ requests[r].snapshotWrites = 1
             /\ requests[r].snapshotSaved
             /\ requests[r].writtenSnapshot = requests[r].agentHistory

C14_Witness ==
    \E r \in Requests :
       /\ requests[r].chatOutcome = "resolved"
       /\ requests[r].pc = "rejected"
       /\ requests[r].storeThrew
       /\ ~requests[r].snapshotSaved
       /\ Len(StoredConversation(savedFile, requests[r].targetConversationId).messages) = 2

----------------------------------------------------------------------------
(* Properties of the history of a turn *)

\* the messages that the events of a turn stand for, in order: the user message
\* of the first send, the model message of a response with function calls and
\* the function message of the send that answers it, the model message of a
\* final text and the user message of a correction
RECURSIVE MessagesOf(_, _)
MessagesOf(evs, first) ==
    IF evs = <<>> THEN <<>>
    ELSE LET e == Head(evs)
             messages ==
                CASE e.type = "send" /\ first -> <<Message("user", e.parts)>>
                  [] e.type = "send" /\ ~first /\ e.parts[1].kind = "functionResponse" ->
                        <<Message("function", e.parts)>>
                  [] e.type = "response" /\ CallsIn(e.parts) # <<>> ->
                        <<Message("model", e.parts)>>
                  [] e.type \in {"final"} -> <<Message("model", e.parts)>>
                  [] e.type = "correction" -> <<Message("user", e.parts)>>
                  [] OTHER -> <<>>
         IN  messages \o MessagesOf(Tail(evs), FALSE)

(* C15: a turn that a malformed or failed model response aborts ends in an
   exception, not in a result, and the history persisted for the conversation
   when the turn settles is the history the turn started from followed by
   every message the turn appended before the failure: the user message and
   the model message and function message of every completed tool round. *)
C15_SnapshotAfterFailure ==
    [][(pc = "rejected" /\ pc' = "idle") =>
          /\ returnValue = NoReturn
          /\ Last(events).type = "reject"
          /\ modelHistory' = historyAtTurnStart \o MessagesOf(events, TRUE)
          /\ conversationHistory' = modelHistory'
      ]_vars

C15_Witness ==
    /\ pc = "idle"
    /\ turn = 1
    /\ Len(modelHistory) = 3
    /\ modelHistory[1].role = "user"
    /\ HasCalls(modelHistory[2])
    /\ Last(modelHistory).role = "function"

----------------------------------------------------------------------------
(* The server that keeps one orchestrator for all requests (the first part   *)
(* of backend/src/index.js): POST /api/reset calls                           *)
(* orchestrator.resetConversation() whenever the event loop is free, so also *)
(* while a chat() of POST /api/chat waits for the model or for a tool.       *)

resetConversation ==
    /\ pc \in {"idle", "sendMessage", "executeToolCall"}
    /\ conversationHistory' = <<>>
    /\ UNCHANGED <<pc, responseSchema, attempt, pendingMessage, finalText,
                   aggregatedToolCalls, iterationToolCalls, validationResult, response,
                   functionCalls, functionResponses, callIndex, returnValue, events, turn,
                   toolCallsIssued, historyAtTurnStart, modelHistory, restVars>>

NextReset ==
    \/ Next
    \/ resetConversation

SpecReset == Init /\ [][NextReset]_vars

(* C16: during a turn the history only grows: from the start of chat() to its
   end every step leaves the messages already in the history in place, and
   the history the turn started from stays a prefix of it. *)
C16_AppendOnly ==
    [][pc # "idle" =>
          /\ IsPrefix(conversationHistory, conversationHistory')
          /\ IsPrefix(historyAtTurnStart, conversationHistory')
      ]_vars

(* C17: in the history, at every point of every turn, a message of role
   function has functionResponse parts only, one at least, and a message of
   role user, the first of the turn and the corrective one alike, has text
   parts only. *)
C17_RolePartTyping ==
    \A i \in DOMAIN conversationHistory :
       /\ conversationHistory[i].role = "function" =>
             /\ conversationHistory[i].parts # <<>>
             /\ \A k \in DOMAIN conversationHistory[i].parts :
                   conversationHistory[i].parts[k].kind = "functionResponse"
       /\ conversationHistory[i].role = "user" =>
             /\ conversationHistory[i].parts # <<>>
             /\ \A k \in DOMAIN conversationHistory[i].parts :
                   conversationHistory[i].parts[k].kind = "text"

C17_Witness ==
    /\ pc = "returned"
    /\ \E i \in DOMAIN conversationHistory :
          /\ conversationHistory[i].role = "function"
          /\ Len(conversationHistory[i].parts) = 2
    /\ Cardinality({i \in DOMAIN conversationHistory : conversationHistory[i].role = "user"}) = 2

----------------------------------------------------------------------------
(* The moodboard trigger: the start of chat() (agent.js 586-630) with        *)
(* prepareMoodboardContext, loadRaInput and generateAttributeCombinations.   *)
(* A range architecture input (raInput) is modelled by the lists that        *)
(* generateAttributeCombinations reads from it.                              *)

MaxPatterns == 3
MaxColors == 2
MaxMaterials == 2

MutMaxCombinations == 5 + 1
\* const maxCombinations = 5
maxCombinations == 5

ColorNames == {"red", "blue"}
PatternNames == {"floral", "stripe"}
MaterialNames == {"cotton", "linen"}

\* hasAttributes: raInput.attributes is there; colors: raInput.colors ||
\* raInput.attributes?.colors || []; patterns: attributes.pattern ||
\* attributes.patterns || []; materials: attributes.fabric || attributes.materials || []
RaInput(hasAttributes, colors, patterns, materials) ==
    [hasAttributes |-> hasAttributes, colors |-> colors, patterns |-> patterns,
     materials |-> materials, bricks |-> <<"tops">>, priceRange |-> Null]

NoRaInput == RaInput(FALSE, <<>>, <<>>, <<>>)

\* the lists of at most n names, the empty one among them
ListsUpTo(S, n) == {<<>>} \cup SeqsUpTo(S, n)

RaInputs ==
    {RaInput(TRUE, c, p, m) : c \in ListsUpTo(ColorNames, MaxColors),
                              p \in ListsUpTo(PatternNames, MaxPatterns),
                              m \in ListsUpTo(MaterialNames, MaxMaterials)}
    \cup {RaInput(FALSE, c, <<>>, <<>>) : c \in ListsUpTo(ColorNames, MaxColors)}

DefaultRaInput == RaInput(TRUE, <<"red", "blue">>, <<"floral", "stripe">>, <<"cotton">>)

\* userMessage: whether it holds MOODBOARD_RA, and what JSON.parse makes of the
\* lines after the trigger line: there are none, it throws, it gives a falsy
\* value such as null, or it gives an object
UserInput(trigger, following, raInput) ==
    [trigger |-> trigger, following |-> following, raInput |-> raInput]

UserInputs ==
    {UserInput(FALSE, "none", NoRaInput)}
    \cup {UserInput(TRUE, f, NoRaInput) : f \in {"none", "throws", "falsy"}}
    \cup {UserInput(TRUE, "object", r) : r \in RaInputs}

\* config/mock_ra_input.json: not there, not JSON, or an object
DefaultSources ==
    {[kind |-> "missing", raInput |-> NoRaInput],
     [kind |-> "invalid", raInput |-> NoRaInput],
     [kind |-> "object", raInput |-> DefaultRaInput]}

Maximum(a, b) == IF a >= b THEN a ELSE b

\* Math.ceil(maxCombinations / Math.max(1, patterns.length))
combinationsPerType(patterns) ==
    LET n == Maximum(1, Len(patterns))
    IN  (maxCombinations + n - 1) \div n

\* the object pushed for pattern i and round j of the two loops (both from 0)
Combination(raInput, i, j) ==
    LET colors == raInput.colors
        materials == raInput.materials
        colorIndex == (i * combinationsPerType(raInput.patterns) + j) % Maximum(1, Len(colors))
        materialIndex == (i * combinationsPerType(raInput.patterns) + j) % Maximum(1, Len(materials))
    IN  [id |-> <<i + 1, j + 1>>,
         colors |-> IF Len(colors) # 0
                    THEN <<colors[colorIndex + 1], colors[((colorIndex + 1) % Len(colors)) + 1]>>
                    ELSE <<>>,
         pattern |-> raInput.patterns[i + 1],
         material |-> IF materialIndex + 1 \in DOMAIN materials
                      THEN materials[materialIndex + 1] ELSE Null,
         bricks |-> raInput.bricks,
         priceRange |-> raInput.priceRange]

\* the two for loops, each with its guard combinations.length < maxCombinations
RECURSIVE CombinationLoops(_, _, _, _)
CombinationLoops(raInput, i, j, combinations) ==
    IF ~(i < Len(raInput.patterns) /\ Len(combinations) < maxCombinations)
    THEN combinations
    ELSE IF ~(j < combinationsPerType(raInput.patterns) /\ Len(combinations) < maxCombinations)
    THEN CombinationLoops(raInput, i + 1, 0, combinations)
    ELSE CombinationLoops(raInput, i, j + 1, Append(combinations, Combination(raInput, i, j)))

generateAttributeCombinations(raInput) ==
    IF ~raInput.hasAttributes
    THEN <<>>
    ELSE LET combinations == CombinationLoops(raInput, 0, 0, <<>>)
         IN  SubSeq(combinations, 1,
                    IF Len(combinations) < maxCombinations
                    THEN Len(combinations) ELSE maxCombinations)

NoRoutingSuggestion == [isNull |-> TRUE, queryType |-> Null, responseSchema |-> FALSE]

\* what prepareMoodboardContext returns for a message without the trigger
NoPreparation ==
    [isNull |-> TRUE, routingSuggestion |-> NoRoutingSuggestion, error |-> Null,
     hasPayload |-> FALSE, raInput |-> NoRaInput, combinations |-> <<>>]

\* raInput after the try block: JSON.parse of the lines after the trigger line
ParseRaInput(input) ==
    IF input.following = "object"
    THEN [isNull |-> FALSE, raInput |-> input.raInput]
    ELSE [isNull |-> TRUE, raInput |-> NoRaInput]

\* loadRaInput(): the parsed file, or null when reading or parsing it throws
loadRaInput(source) ==
    IF source.kind = "object"
    THEN [isNull |-> FALSE, raInput |-> source.raInput]
    ELSE [isNull |-> TRUE, raInput |-> NoRaInput]

prepareMoodboardContext(input, source) ==
    IF ~input.trigger
    THEN NoPreparation
    ELSE LET parsed == ParseRaInput(input)
             loaded == IF parsed.isNull THEN loadRaInput(source) ELSE parsed
         IN  IF loaded.isNull
             THEN [isNull |-> FALSE, routingSuggestion |-> NoRoutingSuggestion,
                   error |-> "Failed to load RA input", hasPayload |-> FALSE,
                   raInput |-> NoRaInput, combinations |-> <<>>]
             ELSE [isNull |-> FALSE,
                   routingSuggestion |-> [isNull |-> FALSE,
                                          queryType |-> "moodboard_generation",
                                          responseSchema |-> TRUE],
                   error |-> Null, hasPayload |-> TRUE, raInput |-> loaded.raInput,
                   combinations |-> generateAttributeCombinations(loaded.raInput)]

\* getQueryRoutingSuggestion(userMessage): always an object, without responseSchema
getQueryRoutingSuggestion ==
    [isNull |-> FALSE, queryType |-> Null, responseSchema |-> FALSE]

\* combinedMessage of a message that went through prepareMoodboardContext
MoodboardMessage(input, preparation, routingSuggestion) ==
    (IF input.trigger THEN <<"MOODBOARD_RA">> ELSE <<"hello">>)
    \o (IF ~preparation.isNull THEN <<"[MOODBOARD_GENERATION_TASK]">> ELSE <<>>)
    \o (IF preparation.hasPayload THEN <<"[MOODBOARD_PAYLOAD]">> ELSE <<>>)
    \o <<"[ROUTING_HINT]">>
    \o (IF routingSuggestion.responseSchema THEN <<"[RESPONSE_FORMAT]">> ELSE <<>>)

InitMoodboard ==
    /\ ChatInit
    /\ StoreIdle
    /\ MatrixIdle
    /\ LaterIdle
    /\ moodboardPc = "idle"
    /\ userInput \in UserInputs
    /\ defaultSource \in DefaultSources
    /\ moodboardPreparation = NoPreparation
    /\ pendingMoodboard = NoPreparation
    /\ moodboardHistory = <<>>

\* chat(userMessage) up to the end of await this.prepareMoodboardContext(userMessage)
PrepareMoodboardContext ==
    /\ moodboardPc = "idle"
    /\ pendingMoodboard' = NoPreparation
    /\ moodboardPreparation' = prepareMoodboardContext(userInput, defaultSource)
    /\ moodboardPc' = "prepareMoodboardContext"
    /\ UNCHANGED <<userInput, defaultSource, moodboardHistory, nonMoodboardVars>>

\* chat() from the preparation to the first await chat.sendMessage: reading
\* routingSuggestion.responseSchema throws when the suggestion is null
ChatAfterPreparation ==
    /\ moodboardPc = "prepareMoodboardContext"
    /\ LET routingSuggestion == IF ~moodboardPreparation.isNull
                                THEN moodboardPreparation.routingSuggestion
                                ELSE getQueryRoutingSuggestion
       IN  /\ pendingMoodboard' = IF ~moodboardPreparation.isNull
                                  THEN moodboardPreparation
                                  ELSE pendingMoodboard
           /\ IF routingSuggestion.isNull
              THEN /\ moodboardPc' = "rejected"
                   /\ UNCHANGED moodboardHistory
              ELSE /\ moodboardPc' = "sendMessage"
                   /\ moodboardHistory' =
                        Append(moodboardHistory,
                               Message("user", <<TextPart(MoodboardMessage(userInput,
                                                   moodboardPreparation, routingSuggestion))>>))
    /\ UNCHANGED <<userInput, defaultSource, moodboardPreparation, nonMoodboardVars>>

NextMoodboard ==
    \/ PrepareMoodboardContext
    \/ ChatAfterPreparation

SpecMoodboard == InitMoodboard /\ [][NextMoodboard]_vars

(* C18: a message with the trigger token and no parseable JSON after it does
   not fail the turn, whatever the parse of the payload and the load of the
   default source give: chat() goes on to the model with the user message in
   the history, and the pending moodboard context holds the payload of the
   default source. *)
C18_FallbackNeverFails ==
    (/\ moodboardPc \in {"sendMessage", "rejected"}
     /\ userInput.trigger
     /\ userInput.following # "object") =>
        /\ moodboardPc = "sendMessage"
        /\ Len(moodboardHistory) = 1
        /\ pendingMoodboard.hasPayload
        /\ pendingMoodboard.raInput = defaultSource.raInput

(* C19: the combinations of a payload are at most 5; they are a function of
   the payload alone: the k-th one has the pattern, the colours and the
   material that the position k picks from the payload's lists, in the order
   of the patterns; a payload without attributes or without patterns has
   none. *)
C19_CombinationsBoundedDeterministic ==
    (moodboardPc # "idle" /\ moodboardPreparation.hasPayload) =>
       LET raInput == moodboardPreparation.raInput
           combinations == moodboardPreparation.combinations
           n == Len(raInput.patterns)
           perType == IF n = 0 THEN 5 ELSE (5 + n - 1) \div n
       IN  /\ Len(combinations) <= 5
           /\ (~raInput.hasAttributes \/ n = 0) <=> combinations = <<>>
           /\ \A k \in DOMAIN combinations :
                 LET i == (k - 1) \div perType
                     j == (k - 1) % perType
                 IN  /\ combinations[k].id = <<i + 1, j + 1>>
                     /\ combinations[k].pattern = raInput.patterns[i + 1]
                     /\ (raInput.colors = <<>> => combinations[k].colors = <<>>)
                     /\ (raInput.colors # <<>> =>
                           combinations[k].colors =
                              << raInput.colors[((k - 1) % Len(raInput.colors)) + 1],
                                 raInput.colors[(k % Len(raInput.colors)) + 1] >>)
                     /\ (raInput.materials = <<>> => combinations[k].material = Null)
                     /\ (raInput.materials # <<>> =>
                           combinations[k].material =
                              raInput.materials[((k - 1) % Len(raInput.materials)) + 1])
           /\ \A k \in DOMAIN combinations :
                 k > 1 => combinations[k].id # combinations[k - 1].id

C19_Witness ==
    /\ moodboardPc = "sendMessage"
    /\ userInput.following = "object"
    /\ Len(moodboardPreparation.raInput.patterns) = 3
    /\ Len(moodboardPreparation.raInput.colors) = 2
    /\ Len(moodboardPreparation.combinations) = 5
    /\ moodboardPreparation.combinations[5].pattern = moodboardPreparation.raInput.patterns[3]
    /\ moodboardPreparation.combinations[5].pattern # moodboardPreparation.combinations[1].pattern

----------------------------------------------------------------------------
(* parseTrendMatrix (agent.js 460-521). The markdown text is modelled line   *)
(* by line; a line is the heading that holds the section anchor, an empty    *)
(* line, a line of prose, a line of prose with a pipe inside, or a table     *)
(* line that starts with a pipe. The cells of a table line are the strings   *)
(* between its pipes; " " is a cell of white space.                          *)

MaxLines == 5

\* if (cells.length < 6) continue
MinCells == 6

Line(kind, before, cells) == [kind |-> kind, before |-> before, cells |-> cells]

AnchorLine == Line("anchor", "#### Trend Alignment Matrix", <<>>)
BlankLine == Line("blank", "", <<>>)
ProseLine == Line("prose", "The trends below fit the brand.", <<>>)
InlineLine == Line("inline", "Columns: name", <<"score">>)
SeparatorLine == Line("row", "", <<"---", "---", "---", "---", "---", "---">>)
DataLine == Line("row", "", <<"Boho", "Growth", "Rising", "87", "fits brand", "[img](http://a)">>)
\* seven cells, one of white space
GappedLine ==
    Line("row", "", <<"Y2K", " ", "Emerging", "Slowing", "n/a", "bold", "http://b wide">>)
ShortLine == Line("row", "", <<"note", " ", "see above">>)

Lines == {AnchorLine, BlankLine, ProseLine, InlineLine, SeparatorLine, DataLine,
          GappedLine, ShortLine}

\* the texts of at most MaxLines lines, the empty text among them
MarkdownTexts == UNION {[1..n -> Lines] : n \in 0..MaxLines}

\* markdownText.indexOf(sectionAnchor) as a line number, 0 for -1
AnchorIndex(text) ==
    IF \E i \in DOMAIN text : text[i].kind = "anchor"
    THEN CHOOSE i \in DOMAIN text :
            /\ text[i].kind = "anchor"
            /\ \A j \in 1..(i - 1) : text[j].kind # "anchor"
    ELSE 0

HasPipe(line) == line.kind \in {"inline", "row"}

\* markdownText.indexOf('|', anchorIndex) as a line number, 0 for -1
TableStart(text, anchorIndex) ==
    IF \E i \in anchorIndex..Len(text) : HasPipe(text[i])
    THEN CHOOSE i \in anchorIndex..Len(text) :
            /\ HasPipe(text[i])
            /\ \A j \in anchorIndex..(i - 1) : ~HasPipe(text[j])
    ELSE 0

\* markdownText.slice(tableStart).split('\n\n')[0], line by line: the first line
\* starts at its first pipe, and the block ends before the first empty line
TableBlock(text, tableStart) ==
    LET rest == SubSeq(text, tableStart, Len(text))
        first == Line("row", "", rest[1].cells)
        sliced == <<first>> \o Tail(rest)
        blanks == {i \in DOMAIN sliced : sliced[i].kind = "blank"}
        end == IF blanks = {} THEN Len(sliced)
               ELSE (CHOOSE i \in blanks : \A j \in blanks : i <= j) - 1
    IN  SubSeq(sliced, 1, end)

\* .split('\n').map(line => line.trim()).filter(line => line.startsWith('|'))
TableLines(block) == SelectSeq(block, LAMBDA line : line.kind = "row")

\* mutant: only the header line is skipped
SkipsHeaderOnly(tableLines) == SubSeq(tableLines, 2, Len(tableLines))

\* tableLines.slice(2)
DataLines(tableLines) == SubSeq(tableLines, 3, Len(tableLines))

\* cell.trim()
Trim(cell) == IF cell = " " THEN "" ELSE cell

RECURSIVE TrimAll(_)
TrimAll(cells) ==
    IF cells = <<>> THEN <<>> ELSE <<Trim(Head(cells))>> \o TrimAll(Tail(cells))

\* line.split('|').map(cell => cell.trim()).filter(Boolean)
Cells(line) == SelectSeq(TrimAll(line.cells), LAMBDA cell : cell # "")

\* scoreCell.match(/-?\d+(\.\d+)?/), then Number(...) or null
Score(scoreCell) ==
    CASE scoreCell = "87" -> [isNull |-> FALSE, value |-> 87]
      [] OTHER -> [isNull |-> TRUE, value |-> 0]

\* the link target of a markdown link, or the first word of a cell that starts
\* with http, or null
VisualUrl(visualCell) ==
    CASE visualCell = "[img](http://a)" -> "http://a"
      [] visualCell = "http://b wide" -> "http://b"
      [] OTHER -> Null

TrendRow(cells) ==
    [name |-> cells[1], lifecycle |-> cells[2], momentum |-> cells[3],
     score |-> Score(cells[4]), whyItFits |-> cells[5], visualUrl |-> VisualUrl(cells[6])]

\* the for loop over tableLines.slice(2)
RECURSIVE TrendRows(_)
TrendRows(lines) ==
    IF lines = <<>> THEN <<>>
    ELSE LET cells == Cells(Head(lines))
         IN  (IF Len(cells) < MinCells THEN <<>> ELSE <<TrendRow(cells)>>)
             \o TrendRows(Tail(lines))

parseTrendMatrix(text) ==
    IF text = <<>> THEN <<>>
    ELSE LET anchorIndex == AnchorIndex(text)
         IN  IF anchorIndex = 0 THEN <<>>
             ELSE LET tableStart == TableStart(text, anchorIndex)
                  IN  IF tableStart = 0 THEN <<>>
                      ELSE LET tableLines == TableLines(TableBlock(text, tableStart))
                           IN  IF Len(tableLines) <= 2 THEN <<>>
                               ELSE TrendRows(DataLines(tableLines))

InitMatrix ==
    /\ ChatInit
    /\ StoreIdle
    /\ MoodboardIdle
    /\ LaterIdle
    /\ matrixPc = "idle"
    /\ markdownText \in MarkdownTexts
    /\ trendRows = <<>>

\* const trendRows = this.parseTrendMatrix(finalText)
ParseTrendMatrix ==
    /\ matrixPc = "idle"
    /\ trendRows' = parseTrendMatrix(markdownText)
    /\ matrixPc' = "parsed"
    /\ UNCHANGED <<markdownText, nonMatrixVars>>

NextMatrix == ParseTrendMatrix

SpecMatrix == InitMatrix /\ [][NextMatrix]_vars

\* the lines of the text that parseTrendMatrix takes for table lines: from the
\* first line with a pipe at or after the anchor, up to the next empty line,
\* that line and every further line that starts with a pipe
TableLineIndexes ==
    LET anchors == {i \in DOMAIN markdownText : markdownText[i].kind = "anchor"}
        a == CHOOSE i \in anchors : \A j \in anchors : i <= j
        pipes == {i \in DOMAIN markdownText : i >= a /\ markdownText[i].kind \in {"inline", "row"}}
        p == CHOOSE i \in pipes : \A j \in pipes : i <= j
    IN  IF anchors = {} \/ pipes = {} THEN {}
        ELSE {i \in DOMAIN markdownText :
                /\ i >= p
                /\ (i = p \/ markdownText[i].kind = "row")
                /\ \A j \in p..i : markdownText[j].kind # "blank"}

\* the table lines after the first two that have six cells or more that are not
\* white space
DataLineIndexes ==
    {i \in TableLineIndexes :
        /\ Cardinality({j \in TableLineIndexes : j < i}) >= 2
        /\ Cardinality({c \in DOMAIN markdownText[i].cells :
                           markdownText[i].cells[c] \notin {"", " "}}) >= 6}

(* C20: for every text parseTrendMatrix returns a table: the empty one when
   the anchor is absent, when no pipe follows it or when the block has no data
   rows; otherwise one row for each line of the block that starts with a pipe,
   comes after the header line and the separator line and has at least six
   non-empty cells, in the order of the lines, with the first non-empty cell
   of the line as its name. *)
C20_OneRowPerDataLine ==
    matrixPc = "parsed" =>
       /\ Len(trendRows) = Cardinality(DataLineIndexes)
       /\ \A k \in DOMAIN trendRows :
             \E i \in DataLineIndexes :
                /\ Cardinality({j \in DataLineIndexes : j < i}) = k - 1
                /\ trendRows[k].name = markdownText[i].cells[1]
       /\ ((\A i \in DOMAIN markdownText : markdownText[i].kind # "anchor") =>
              trendRows = <<>>)

C20_Witness ==
    /\ matrixPc = "parsed"
    /\ markdownText = <<AnchorLine, DataLine, SeparatorLine, ShortLine, GappedLine>>
    /\ Len(trendRows) = 1
    /\ trendRows[1].name = "Y2K"
    /\ trendRows[1].visualUrl = "http://b"

----------------------------------------------------------------------------
(* The ws.on('message') handler of part_004 around runConversationTurn: the  *)
(* turn of the "ws" request, the socket it answers on, and the close event   *)
(* of that socket. The event loop delivers a close event between two tasks,  *)
(* that is while the handler waits for a message or for agent.chat.          *)

MaxChunks == 1

OpenSocket == [readyState |-> "OPEN", sent |-> <<>>, chunks |-> 0]

\* mutant: ws.send whatever ws.readyState is
SendsAlways(ws, message) == [ws EXCEPT !.sent = Append(@, message)]

\* if (ws.readyState === WebSocket.OPEN) { ws.send(...) }
SendIfOpen(ws, message) ==
    IF ws.readyState = "OPEN" THEN [ws EXCEPT !.sent = Append(@, message)] ELSE ws

InitSocket == ChatInit /\ StoreInit /\ MoodboardIdle /\ MatrixIdle /\ LaterIdle

\* wss.on('connection'): a client connects and gets a socket with its handlers
Connection ==
    /\ socket.readyState = "CLOSED"
    /\ requests["ws"].pc = "idle"
    /\ socket' = OpenSocket
    /\ UNCHANGED <<chatVars, storeVars, moodboardVars, matrixVars, guard, aggregator, reportStore, storeCall, lastVars>>

\* ws.on('message'): a message arrives on the open socket and the turn begins;
\* the run is bounded to MaxServerTurns - 1 turns over sockets
WsMessage(conversationId, saveOk) ==
    /\ socket.readyState = "OPEN"
    /\ turnsStarted + 1 < MaxServerTurns
    /\ TurnBegins("ws", conversationId, saveOk)

\* the agent calls streamCallback(chunk) while agent.chat is under way
StreamCallback ==
    /\ requests["ws"].pc = "chat"
    /\ socket.chunks < MaxChunks
    /\ socket' = SendIfOpen([socket EXCEPT !.chunks = @ + 1], "chunk")
    /\ UNCHANGED <<chatVars, storeVars, moodboardVars, matrixVars, guard, aggregator, reportStore, storeCall, lastVars>>

\* ws.on('close'): the client is gone; the handler only logs it
SocketCloses ==
    /\ socket.readyState = "OPEN"
    /\ requests["ws"].pc \in {"idle", "chat"}
    /\ socket' = [socket EXCEPT !.readyState = "CLOSED"]
    /\ UNCHANGED <<chatVars, storeVars, moodboardVars, matrixVars, guard, aggregator, reportStore, storeCall, lastVars>>

\* agent.chat of the turn settles and runConversationTurn runs to its end
WsChatSettles ==
    \/ \E rounds \in AgentRounds, appendOk \in BOOLEAN, snapshotOk \in BOOLEAN :
          TurnEndsAfterChatResolved("ws", rounds, appendOk, snapshotOk)
    \/ \E pushed \in BOOLEAN, rounds \in AgentRounds, snapshotOk \in BOOLEAN :
          TurnEndsAfterChatRejected("ws", pushed, rounds, snapshotOk)

\* the rest of the handler after await runConversationTurn: final_response or
\* error goes to the socket if it is open
WsAnswers ==
    /\ requests["ws"].pc \in {"returned", "rejected"}
    /\ socket' = [SendIfOpen(socket, IF requests["ws"].pc = "returned"
                                     THEN "final_response" ELSE "error")
                    EXCEPT !.chunks = 0]
    /\ requests' = [requests EXCEPT !["ws"] = IdleRequest]
    /\ UNCHANGED <<conversations, savedFile, saveFailures, turnsStarted,
                   chatVars, moodboardVars, matrixVars, guard, aggregator, reportStore, storeCall, lastVars>>

NextSocket ==
    \/ Connection
    \/ \E conversationId \in RequestedConversationIds, saveOk \in BOOLEAN :
          WsMessage(conversationId, saveOk)
    \/ StreamCallback
    \/ SocketCloses
    \/ WsChatSettles
    \/ WsAnswers

\* agent.chat is a promise that settles: the calls it waits for settle
SpecSocket == InitSocket /\ [][NextSocket]_vars /\ WF_vars(WsChatSettles)

----------------------------------------------------------------------------
(* Properties of the WebSocket handler *)

\* the turn of the ws request has left runConversationTurn
WsTurnOver == requests["ws"].pc \in {"returned", "rejected"}

\* what the store holds of the turn once it is over
WsTurnPersisted ==
    LET id == requests["ws"].targetConversationId
        conversation == StoredConversation(conversations, id)
    IN  /\ requests["ws"].snapshotWrites = 1
        /\ conversation.modelHistory = requests["ws"].agentHistory
        /\ requests["ws"].chatOutcome = "resolved" =>
              /\ conversation.messages # <<>>
              /\ conversation.messages[Len(conversation.messages)]
                    = StoredMessage("assistant", "answer")
        /\ requests["ws"].pc = "returned" =>
              StoredConversation(savedFile, id) = conversation

\* C21: a turn that has started runs to its end whatever happens to the socket:
\* with the socket closed while agent.chat is under way the turn still ends, the
\* assistant message and the snapshot are stored as they are with an open
\* socket, a closed socket gets nothing, and an open one gets the answer.
C21_ClosedSocketTurnCompletes ==
    /\ (requests["ws"].pc = "chat" /\ socket.readyState = "CLOSED") ~> WsTurnOver
    /\ [](WsTurnOver /\ ChatSettled("ws") => WsTurnPersisted)
    /\ [][socket.readyState = "CLOSED" /\ socket'.readyState = "CLOSED"
             => socket'.sent = socket.sent]_vars
    /\ [][WsTurnOver /\ socket.readyState = "OPEN" /\ requests'["ws"].pc = "idle"
             => Len(socket'.sent) = Len(socket.sent) + 1]_vars

\* a turn has ended with its answer stored after the socket closed during
\* agent.chat and a chunk was dropped
C21_Witness ==
    /\ requests["ws"].pc = "returned"
    /\ socket.readyState = "CLOSED"
    /\ socket.chunks = 1
    /\ socket.sent = <<>>
    /\ WsTurnPersisted

----------------------------------------------------------------------------
(* RateLimitGuard: invoke(action, context) wraps a model invocation, retries *)
(* it after a rate-limit error and lets every other error through. Texts are *)
(* sequences of words.                                                       *)

MaxRetries == 2

\* the configured floor of the delay, in milliseconds
DefaultFloorMs == 60000

\* a numeric retryDelay up to this value is in seconds, above it in milliseconds
SecondsLimit == 600

NumberDelay(n) == [kind |-> "number", value |-> n, seconds |-> 0, nanos |-> 0]

PairDelay(seconds, nanos) == [kind |-> "pair", value |-> 0, seconds |-> seconds, nanos |-> nanos]

\* the words that have an upper-case letter, and their lower-case form
Lowered ==
    [w \in {"Too", "Many", "Requests", "Quota", "Exceeded", "Rate", "Limit", "Retry", "HTTP"} |->
        CASE w = "Too" -> "too" [] w = "Many" -> "many" [] w = "Requests" -> "requests"
          [] w = "Quota" -> "quota" [] w = "Exceeded" -> "exceeded" [] w = "Rate" -> "rate"
          [] w = "Limit" -> "limit" [] w = "Retry" -> "retry" [] w = "HTTP" -> "http"]

toLowerCase(text) ==
    [i \in DOMAIN text |-> IF text[i] \in DOMAIN Lowered THEN Lowered[text[i]] ELSE text[i]]

\* the words that are decimal numbers, and their value
Numbers == [w \in {"3", "120"} |-> IF w = "3" THEN 3 ELSE 120]

\* text.includes(phrase), for a phrase of several words
IncludesPhrase(text, phrase) ==
    \E i \in 1..(Len(text) - Len(phrase) + 1) :
        SubSeq(text, i, i + Len(phrase) - 1) = phrase

RateLimitPhrases ==
    { <<"429">>, <<"quota", "exceeded">>, <<"rate", "limit">>, <<"too", "many", "requests">> }

\* mutant: only the status code is looked at
StatusCodeOnly(error) == error.status = 429

\* classification: status code 429, or a status text with "too many requests",
\* or a message with one of the phrases, whatever the case of the letters
isRateLimitError(error) ==
    \/ error.status = 429
    \/ IncludesPhrase(toLowerCase(error.statusText), <<"too", "many", "requests">>)
    \/ \E phrase \in RateLimitPhrases : IncludesPhrase(toLowerCase(error.message), phrase)

\* "retry in N s" or "retry after N s" in the message: the places of N
RetryHints(message) ==
    LET text == toLowerCase(message)
    IN  { i \in 3..(Len(text) - 1) :
            /\ text[i - 2] = "retry"
            /\ text[i - 1] \in {"in", "after"}
            /\ text[i] \in DOMAIN Numbers
            /\ text[i + 1] = "s" }

\* the delay the provider suggests, in milliseconds, 0 when it suggests none:
\* the structured retryDelay first, then the hint of the message
extractRetryDelay(error) ==
    IF error.retryDelay.kind = "number"
    THEN IF error.retryDelay.value <= SecondsLimit
         THEN error.retryDelay.value * 1000
         ELSE error.retryDelay.value
    ELSE IF error.retryDelay.kind = "pair"
    THEN error.retryDelay.seconds * 1000 + error.retryDelay.nanos \div 1000000
    ELSE IF RetryHints(error.message) # {}
    THEN Numbers[toLowerCase(error.message)[CHOOSE i \in RetryHints(error.message) :
                    \A j \in RetryHints(error.message) : i <= j]] * 1000
    ELSE 0

\* mutant: the delay of the provider is taken as it is
SuggestedDelay(error, floor) ==
    IF extractRetryDelay(error) = 0 THEN floor ELSE extractRetryDelay(error)

\* the wait before the retry: the suggested delay, or the floor when there is
\* none, and never less than the floor
computeDelay(error, floor) ==
    LET suggested == extractRetryDelay(error)
        delay == IF suggested = 0 THEN floor ELSE suggested
    IN  IF delay < floor THEN floor ELSE delay

ProviderErrors ==
    { ProviderError(429, <<"Too", "Many", "Requests">>, <<"Resource", "exhausted">>,
                    NoRetryDelay, TRUE, 0),
      ProviderError(500, <<"Internal">>, <<"boom">>, NoRetryDelay, FALSE, 0),
      ProviderError(0, <<>>, <<"Quota", "Exceeded", "Retry", "in", "3", "s">>,
                    NoRetryDelay, TRUE, 3000),
      ProviderError(503, <<"too", "many", "requests">>, <<"busy">>,
                    NumberDelay(120), TRUE, 120000),
      ProviderError(0, <<>>, <<"HTTP", "429">>, NumberDelay(3000), TRUE, 3000),
      ProviderError(429, <<>>, <<"retry", "after", "3", "s">>,
                    PairDelay(120, 500000000), TRUE, 120500),
      ProviderError(0, <<>>, <<"Rate", "Limit", "hit">>, NoRetryDelay, TRUE, 0),
      ProviderError(400, <<"Bad", "Request">>, <<"retry", "after", "3", "s">>,
                    NoRetryDelay, FALSE, 0) }

Notification(delay, error) ==
    [type |-> "rate_limit", retryInSeconds |-> delay \div 1000, message |-> error.message]

\* mutant: a retry after the floor delay is not announced
NotifyAboveFloor(notifications, delay, error) ==
    IF delay = DefaultFloorMs THEN notifications
    ELSE Append(notifications, Notification(delay, error))

\* the observer gets {retryInSeconds, message}
Notify(notifications, delay, error) == Append(notifications, Notification(delay, error))

InitGuard == ChatInit /\ StoreIdle /\ MoodboardIdle /\ MatrixIdle /\ LaterIdle

\* invoke(action, context) is called and calls action()
Invoke ==
    /\ guard.pc = "idle"
    /\ guard' = [pc |-> "invoking", invocations |-> 1, retries |-> 0,
                 events |-> <<"invoke">>, notifications |-> <<>>, waits |-> <<>>,
                 lastError |-> NoError, thrown |-> NoError, result |-> Null]
    /\ UNCHANGED <<chatVars, storeVars, moodboardVars, matrixVars, socket, aggregator, reportStore, storeCall, lastVars>>

\* action() resolves: invoke returns the response
ActionResolves ==
    /\ guard.pc = "invoking"
    /\ guard' = [guard EXCEPT !.pc = "returned", !.result = "response",
                              !.events = Append(@, "return")]
    /\ UNCHANGED <<chatVars, storeVars, moodboardVars, matrixVars, socket, aggregator, reportStore, storeCall, lastVars>>

\* action() rejects: a rate-limit error is announced to the observer and the
\* wait begins, any other error leaves invoke as it is
ActionRejects(error) ==
    /\ guard.pc = "invoking"
    /\ IF isRateLimitError(error)
       THEN /\ guard.retries < MaxRetries
            /\ LET delay == computeDelay(error, DefaultFloorMs)
               IN  guard' = [guard EXCEPT
                      !.pc = "waiting",
                      !.retries = @ + 1,
                      !.lastError = error,
                      !.notifications = Notify(@, delay, error),
                      !.waits = Append(@, delay),
                      !.events = @ \o (IF Len(Notify(guard.notifications, delay, error))
                                            > Len(guard.notifications)
                                       THEN <<"error", "notify", "wait">>
                                       ELSE <<"error", "wait">>)]
       ELSE guard' = [guard EXCEPT !.pc = "threw", !.lastError = error, !.thrown = error,
                                   !.events = @ \o <<"error", "throw">>]
    /\ UNCHANGED <<chatVars, storeVars, moodboardVars, matrixVars, socket, aggregator, reportStore, storeCall, lastVars>>

\* the delay is over: action() is called again
BackoffElapses ==
    /\ guard.pc = "waiting"
    /\ guard' = [guard EXCEPT !.pc = "invoking", !.invocations = @ + 1,
                              !.events = Append(@, "invoke")]
    /\ UNCHANGED <<chatVars, storeVars, moodboardVars, matrixVars, socket, aggregator, reportStore, storeCall, lastVars>>

NextGuard ==
    \/ Invoke
    \/ ActionResolves
    \/ \E error \in ProviderErrors : ActionRejects(error)
    \/ BackoffElapses

SpecGuard == InitGuard /\ [][NextGuard]_vars

----------------------------------------------------------------------------
(* Properties of RateLimitGuard *)

\* C22: invoke never ends with a rate-limit failure: what it throws is an error
\* the provider did not mean as throttling, unchanged; what it returns is the
\* response of the action; after a throttling error it waits and calls again.
C22_NeverSurfacesRateLimit ==
    /\ guard.pc = "threw" =>
          /\ ~guard.thrown.throttled
          /\ guard.thrown = guard.lastError
          /\ guard.thrown \in ProviderErrors
    /\ guard.pc = "returned" => guard.result = "response"
    /\ guard.pc = "waiting" => guard.lastError.throttled
    /\ guard.lastError.throttled => guard.pc \in {"waiting", "invoking", "returned"}
    /\ guard.pc \in {"invoking", "returned", "threw"} =>
          guard.invocations = guard.retries + 1

\* a throttling error was absorbed and the error after it was let through
C22_Witness ==
    /\ guard.pc = "threw"
    /\ guard.retries = 1
    /\ guard.thrown.status = 500

\* C23: every wait is at least the floor, and it is the larger of the floor and
\* the delay the provider suggested: 3,000 ms gives 60,000 ms, 120,000 ms gives
\* 120,000 ms.
C23_DelayNeverBelowFloor ==
    /\ \A i \in DOMAIN guard.waits : guard.waits[i] >= DefaultFloorMs
    /\ guard.pc = "waiting" =>
          LET wait == guard.waits[Len(guard.waits)]
              suggested == guard.lastError.suggestedMs
          IN  /\ wait = IF suggested > DefaultFloorMs THEN suggested ELSE DefaultFloorMs
              /\ suggested = 3000 => wait = 60000
              /\ suggested = 120000 => wait = 120000

\* a suggested delay of 3,000 ms, then one of 120,000 ms
C23_Witness ==
    /\ guard.pc = "waiting"
    /\ guard.waits = <<60000, 120000>>
    /\ guard.notifications[1].message = <<"HTTP", "429">>
    /\ guard.lastError.suggestedMs = 120000

\* C24: every retry has its notification, of type rate_limit with the delay in
\* seconds and the message, sent before the wait and the next call of the
\* action; there are as many notifications as retries.
C24_OneNotificationPerRetry ==
    /\ Len(guard.notifications) = guard.retries
    /\ Len(guard.waits) = guard.retries
    /\ \A i \in DOMAIN guard.notifications :
          /\ guard.notifications[i].type = "rate_limit"
          /\ guard.notifications[i].retryInSeconds = guard.waits[i] \div 1000
          /\ guard.notifications[i].message # <<>>
    /\ \A i \in DOMAIN guard.events :
          /\ guard.events[i] = "wait" => i > 1 /\ guard.events[i - 1] = "notify"
          /\ guard.events[i] = "invoke" /\ i > 1 => guard.events[i - 1] = "wait"

\* two retries, each announced, and then the response
C24_Witness ==
    /\ guard.pc = "returned"
    /\ guard.retries = 2
    /\ Len(guard.notifications) = 2
    /\ guard.notifications[1].retryInSeconds = 60

----------------------------------------------------------------------------
(* StreamingResponseAggregator: aggregate(chunks) folds the partial parts of *)
(* the chunks, in their order of arrival, into the parts of one message. An  *)
(* args object is the set of its <<key, value>> entries.                     *)

MaxStreamChunks == 3

PartialText(text) == [kind |-> "text", text |-> text, name |-> Null, args |-> {}]

PartialCall(name, args) == [kind |-> "functionCall", text |-> <<>>, name |-> name, args |-> args]

\* the partial parts a chunk may carry
PartialParts ==
    { PartialText(<<"He">>), PartialText(<<"llo">>),
      PartialCall("run_query", {<<"a", 1>>}),
      PartialCall("run_query", {<<"b", 2>>}),
      PartialCall("run_query", {<<"a", 3>>}),
      PartialCall("forecast", {<<"a", 1>>}) }

\* a chunk has one partial part or two
StreamChunks ==
    {<<p>> : p \in PartialParts}
    \cup { <<PartialText(<<"He">>), PartialCall("run_query", {<<"a", 1>>})>>,
           <<PartialCall("run_query", {<<"b", 2>>}), PartialText(<<"llo">>)>> }

ChunkSequences == UNION {[1..n -> StreamChunks] : n \in 0..MaxStreamChunks}

\* mutant: the incoming args take the place of the accumulated ones
ReplaceArgs(args, incoming) == incoming

\* { ...args, ...incoming }: the entries of incoming, and the entries of args
\* whose key incoming does not have
MergeArgs(args, incoming) ==
    {e \in args : ~\E f \in incoming : f[1] = e[1]} \cup incoming

\* index of the first accumulator entry that satisfies Test, 0 when there is none
FindEntry(acc, Test(_)) ==
    IF \E i \in DOMAIN acc : Test(acc[i])
    THEN CHOOSE i \in DOMAIN acc : Test(acc[i]) /\ \A j \in 1..(i - 1) : ~Test(acc[j])
    ELSE 0

\* one partial part is folded into the accumulator
AccumulatePart(acc, part) ==
    IF part.kind = "text"
    THEN LET i == FindEntry(acc, LAMBDA e : e.kind = "text")
         IN  IF i = 0 THEN Append(acc, PartialText(part.text))
             ELSE [acc EXCEPT ![i].text = @ \o part.text]
    ELSE LET i == FindEntry(acc, LAMBDA e : e.kind = "functionCall" /\ e.name = part.name)
         IN  IF i = 0 THEN Append(acc, PartialCall(part.name, part.args))
             ELSE [acc EXCEPT ![i].args = MergeArgs(@, part.args)]

RECURSIVE AccumulateParts(_, _)
AccumulateParts(acc, parts) ==
    IF parts = <<>> THEN acc
    ELSE AccumulateParts(AccumulatePart(acc, Head(parts)), Tail(parts))

RECURSIVE aggregate(_, _)
aggregate(acc, chunks) ==
    IF chunks = <<>> THEN acc
    ELSE aggregate(AccumulateParts(acc, Head(chunks)), Tail(chunks))

InitAggregator ==
    /\ ChatInit /\ StoreIdle /\ MoodboardIdle /\ MatrixIdle
    /\ SocketIdle /\ GuardIdle /\ ReportStoreIdle /\ StoreCallIdle /\ LastIdle
    /\ \E chunks \in ChunkSequences :
          aggregator = [pc |-> "streaming", chunks |-> chunks, parts |-> <<>>]

\* the stream has ended: the message is made of all its chunks
Aggregate ==
    /\ aggregator.pc = "streaming"
    /\ aggregator' = [aggregator EXCEPT !.pc = "aggregated",
                                        !.parts = aggregate(<<>>, aggregator.chunks)]
    /\ UNCHANGED <<chatVars, storeVars, moodboardVars, matrixVars, socket, guard, reportStore, storeCall, lastVars>>

NextAggregator == Aggregate

SpecAggregator == InitAggregator /\ [][NextAggregator]_vars

----------------------------------------------------------------------------
(* Properties of StreamingResponseAggregator *)

\* the partial parts of the chunks, in their order of arrival
RECURSIVE Fragments(_)
Fragments(chunks) ==
    IF chunks = <<>> THEN <<>> ELSE Head(chunks) \o Fragments(Tail(chunks))

RECURSIVE JoinTexts(_)
JoinTexts(parts) ==
    IF parts = <<>> THEN <<>>
    ELSE (IF Head(parts).kind = "text" THEN Head(parts).text ELSE <<>>)
         \o JoinTexts(Tail(parts))

\* the places of the fragments of the call name that have the key
FragmentsWith(fragments, name, key) ==
    { i \in DOMAIN fragments :
        /\ fragments[i].kind = "functionCall"
        /\ fragments[i].name = name
        /\ \E e \in fragments[i].args : e[1] = key }

\* C25: the aggregated message has one call for each distinct name of the
\* chunks; the args of the call have every key some fragment of that name has,
\* with the value of the last such fragment ({a:1} then {b:2} gives {a:1,b:2});
\* the text of the message is the fragments' texts joined in order.
C25_MergeByName ==
    aggregator.pc = "aggregated" =>
       LET fragments == Fragments(aggregator.chunks)
           parts == aggregator.parts
           calls == {i \in DOMAIN parts : parts[i].kind = "functionCall"}
       IN  /\ JoinTexts(parts) = JoinTexts(fragments)
           /\ \A i, j \in calls : parts[i].name = parts[j].name => i = j
           /\ \A k \in DOMAIN fragments :
                 fragments[k].kind = "functionCall" =>
                    \E i \in calls : parts[i].name = fragments[k].name
           /\ \A i \in calls :
                 /\ \A e \in parts[i].args :
                       LET places == FragmentsWith(fragments, parts[i].name, e[1])
                       IN  /\ places # {}
                           /\ e \in fragments[CHOOSE p \in places :
                                                 \A q \in places : q <= p].args
                 /\ \A k \in DOMAIN fragments :
                       fragments[k].kind = "functionCall" /\ fragments[k].name = parts[i].name
                          => \A f \in fragments[k].args : \E e \in parts[i].args : e[1] = f[1]
                 /\ \A e, f \in parts[i].args : e[1] = f[1] => e = f

\* {a:1} and {b:2} of one call came in two chunks, with text between and after
C25_Witness ==
    /\ aggregator.pc = "aggregated"
    /\ aggregator.chunks = << <<PartialText(<<"He">>), PartialCall("run_query", {<<"a", 1>>})>>,
                              <<PartialCall("run_query", {<<"b", 2>>}), PartialText(<<"llo">>)>> >>
    /\ aggregator.parts = << PartialText(<<"He", "llo">>),
                             PartialCall("run_query", {<<"a", 1>>, <<"b", 2>>}) >>

----------------------------------------------------------------------------
(* Termination of chat() *)

\* every await of chat() settles: an executeToolCall under way ends, and a
\* model that is asked again and again answers without function calls at last
\* (or its invocation rejects)
SpecChatLive ==
    /\ Init
    /\ [][Next]_vars
    /\ WF_vars(\E outcome \in ToolOutcomes : ToolCallSettles(outcome))
    /\ SF_vars(\E parts \in TextResponses : ModelAnswers(parts))

\* chat() is under way
ChatRunning == pc \in {"sendMessage", "executeToolCall"}

\* the rounds the bounds of the model leave to the run
RoundsLeft == MaxToolCalls - (turn - 1) - toolCallsIssued

\* C26: chat() that is under way settles when its awaits settle and the model
\* comes to answer without function calls; chat() itself never refuses another
\* tool round: whatever the attempt and however many rounds have gone, a
\* response with a function call is taken up as long as the bounds of the model
\* leave a round.
C26_ReturnsIfModelConverges ==
    /\ ChatRunning ~> (pc \in {"returned", "rejected"})
    /\ [](pc = "sendMessage" /\ RoundsLeft >= 1 =>
             ENABLED ModelRequestsTools(<<FunctionCallPart("run_query", "{}")>>))

\* chat() has returned after as many tool rounds in one attempt as the bounds
\* of the model allow
C26_Witness ==
    /\ pc = "returned"
    /\ attempt = 0
    /\ Len(iterationToolCalls) = MaxToolCalls
    /\ Len(SelectSeq(events, LAMBDA e : e.type = "response")) = MaxToolCalls + 1

----------------------------------------------------------------------------
(* The WGSN report store of part_003: upsertReport(report) reads the store   *)
(* file, puts the report into the list and writes the file. The ingestion    *)
(* script is the one caller and awaits each call.                            *)

MaxUpserts == 3

ReportIds == {"wgsn-a", "wgsn-b"}

\* the sha256 of the PDF; older entries of a store file may have none
Checksums == {"c1", "c2", Null}

Titles == {"t1", "t2"}

Reports == {Report(id, checksum, title) : id \in ReportIds, checksum \in Checksums,
                                          title \in Titles}

\* (report.checksum && existing.checksum === report.checksum) || existing.id === report.id
MatchesReport(existing, report) ==
    \/ report.checksum # Null /\ existing.checksum = report.checksum
    \/ existing.id = report.id

\* nextReports.findIndex(...): the first entry that matches, 0 when none does
existingIndex(reports, report) ==
    IF \E i \in DOMAIN reports : MatchesReport(reports[i], report)
    THEN CHOOSE i \in DOMAIN reports :
            /\ MatchesReport(reports[i], report)
            /\ \A j \in 1..(i - 1) : ~MatchesReport(reports[j], report)
    ELSE 0

\* mutant: the report is always pushed
AlwaysPush(reports, report) ==
    [reports |-> Append(reports, report), wasUpdated |-> FALSE]

\* the list written to the file, and the flag returned
upsertReport(reports, report) ==
    LET i == existingIndex(reports, report)
    IN  IF i > 0
        THEN [reports |-> [reports EXCEPT ![i] = report], wasUpdated |-> TRUE]
        ELSE [reports |-> Append(reports, report), wasUpdated |-> FALSE]

InitReports == ChatInit /\ StoreIdle /\ MoodboardIdle /\ MatrixIdle /\ LaterIdle

\* one call of upsertReport, from readStore to its return
UpsertReport(report) ==
    /\ reportStore.upserts < MaxUpserts
    /\ reportStore' =
          [reports |-> upsertReport(reportStore.reports, report).reports,
           previous |-> reportStore.reports,
           report |-> report,
           wasUpdated |-> upsertReport(reportStore.reports, report).wasUpdated,
           upserts |-> reportStore.upserts + 1]
    /\ UNCHANGED <<chatVars, storeVars, moodboardVars, matrixVars, socket, guard, aggregator, storeCall, lastVars>>

NextReports == \E report \in Reports : UpsertReport(report)

SpecReports == InitReports /\ [][NextReports]_vars

----------------------------------------------------------------------------
(* Properties of upsertReport *)

\* the entries of the list that have the checksum or the id of the report
Matching(reports, report) ==
    { i \in DOMAIN reports :
        \/ report.checksum # Null /\ reports[i].checksum = report.checksum
        \/ reports[i].id = report.id }

\* C27: when an entry of the store has the checksum or the id of the report,
\* the first such entry is overwritten, nothing is added and wasUpdated is
\* true; otherwise the report is appended and wasUpdated is false; the same
\* report upserted again leaves the list as it is.
C27_UpsertReplacesInPlace ==
    /\ [](reportStore.upserts > 0 =>
            LET before == reportStore.previous
                after == reportStore.reports
                matching == Matching(before, reportStore.report)
            IN  IF matching # {}
                THEN /\ reportStore.wasUpdated
                     /\ Len(after) = Len(before)
                     /\ \A i \in DOMAIN before :
                           after[i] = IF \A j \in matching : i <= j
                                         /\ i \in matching
                                      THEN reportStore.report
                                      ELSE before[i]
                ELSE /\ ~reportStore.wasUpdated
                     /\ after = Append(before, reportStore.report))
    /\ [][reportStore.upserts > 0 /\ reportStore'.upserts = reportStore.upserts + 1
            /\ reportStore'.report = reportStore.report
          => reportStore'.reports = reportStore.reports /\ reportStore'.wasUpdated]_vars

\* a report that has the checksum of the first entry and the id of the second
\* has taken the place of the first
C27_Witness ==
    /\ reportStore.upserts = 3
    /\ reportStore.wasUpdated
    /\ reportStore.report = Report("wgsn-b", "c1", "t2")
    /\ reportStore.previous = <<Report("wgsn-a", "c1", "t1"), Report("wgsn-b", "c2", "t1")>>
    /\ reportStore.reports = <<Report("wgsn-b", "c1", "t2"), Report("wgsn-b", "c2", "t1")>>

----------------------------------------------------------------------------
(* ConversationStore of backend/src/conversationStore.js: the constructor on *)
(* a store file, and its methods called one after the other (they are        *)
(* synchronous). title, createdAt and updatedAt are not modelled: the list   *)
(* is kept in the order of updatedAt, newest first, and renameConversation   *)
(* is seen by the order only.                                                *)

MaxStoreCalls == 2
MaxFileMessages == 2

\* the payloads of appendMessage and the entries of a store file: the role may
\* be missing, and it may be any string
RawMessages ==
    { StoredMessage("user", "hi"), StoredMessage("assistant", "hello"),
      StoredMessage("error", "failed"), StoredMessage("system", "be kind"),
      StoredMessage(Null, "no role"), NotAnObject }

\* a store file: unreadable (missing, or not JSON), or an object whose
\* conversations are a list or something else
StoreFile(readable, isArray, convs) ==
    [readable |-> readable, isArray |-> isArray, conversations |-> convs]

\* the entries of a file: what _save() wrote, and what another hand may have
\* put there
FileEntries ==
    { StoredMessage("user", "hi"), StoredMessage("error", "failed"),
      StoredMessage("system", "be kind"), NotAnObject }

FileMessages == UNION {[1..n -> FileEntries] : n \in 0..MaxFileMessages}

StoreFiles ==
    { StoreFile(FALSE, FALSE, <<>>), StoreFile(TRUE, FALSE, <<>>), StoreFile(TRUE, TRUE, <<>>) }
    \cup { StoreFile(TRUE, TRUE, <<Conversation("a", messages, <<>>)>>) :
              messages \in FileMessages }
    \cup { StoreFile(TRUE, TRUE, <<Conversation("a", <<>>, <<>>),
                                   Conversation("b", messages, <<>>)>>) :
              messages \in {<<>>, <<StoredMessage("user", "hi"), StoredMessage("error", "failed")>>} }

\* randomUUID(): an id no conversation has had
NewId(created) == "n" \o ToString(created + 1)

_buildConversation(created) == Conversation(NewId(created), <<>>, <<>>)

\* messages.map(_normalizeMessage).filter(message => message && message.role !== 'error')
LoadMessages(messages) ==
    LET kept == SelectSeq(messages, LAMBDA m : /\ _normalizeMessage(m).valid
                                               /\ _normalizeMessage(m).entry.role # "error")
    IN  [i \in DOMAIN kept |-> _normalizeMessage(kept[i]).entry]

\* _load(): the conversations of the file, or none when the file cannot be read
\* or holds no list; the files are written by _save(), so their conversations
\* are in the order _sortConversations() gives
_load(file) ==
    IF file.readable /\ file.isArray
    THEN [i \in DOMAIN file.conversations |->
             [file.conversations[i] EXCEPT !.messages = LoadMessages(@)]]
    ELSE <<>>

\* new ConversationStore(filePath): the list, the file, and the ids made
constructor(file) ==
    LET loaded == _load(file)
        afterLoad == IF file.readable THEN file.conversations ELSE <<>>
    IN  IF loaded = <<>>
        THEN [conversations |-> <<_buildConversation(0)>>,
              savedFile |-> <<_buildConversation(0)>>, created |-> 1]
        ELSE [conversations |-> loaded, savedFile |-> afterLoad, created |-> 0]

\* the list after createConversation, before its _save()
createConversation(convs, created) == <<_buildConversation(created)>> \o convs

\* mutant: the list may be left empty
DeletesOnly(convs, id, created) ==
    LET index == _findConversation(convs, id)
    IN  IF index = 0 THEN [saves |-> FALSE, conversations |-> convs, created |-> created]
        ELSE [saves |-> TRUE, created |-> created,
              conversations |-> SubSeq(convs, 1, index - 1) \o SubSeq(convs, index + 1, Len(convs))]

\* the list after deleteConversation, before its _save()
deleteConversation(convs, id, created) ==
    LET index == _findConversation(convs, id)
        spliced == SubSeq(convs, 1, index - 1) \o SubSeq(convs, index + 1, Len(convs))
    IN  IF index = 0 THEN [saves |-> FALSE, conversations |-> convs, created |-> created]
        ELSE IF spliced = <<>>
        THEN [saves |-> TRUE, conversations |-> <<_buildConversation(created)>>,
              created |-> created + 1]
        ELSE [saves |-> TRUE, conversations |-> spliced, created |-> created]

\* the list after ConversationStore.resetConversation, before its _save()
storeResetConversation(convs, id) ==
    LET i == _findConversation(convs, id)
    IN  IF i = 0 THEN [saves |-> FALSE, conversations |-> convs]
        ELSE [saves |-> TRUE,
              conversations |->
                 _touchConversation([convs EXCEPT ![i].messages = <<>>,
                                                  ![i].modelHistory = <<>>], i)]

\* the list after renameConversation, before its _save()
renameConversation(convs, id) ==
    LET i == _findConversation(convs, id)
    IN  IF i = 0 THEN [saves |-> FALSE, conversations |-> convs]
        ELSE [saves |-> TRUE, conversations |-> _touchConversation(convs, i)]

\* what a call leaves behind for the properties
StoreCall(op, id, message, created, threw, error, entry) ==
    [op |-> op, conversationId |-> id, message |-> message,
     previous |-> conversations, previousFile |-> savedFile, file |-> StoreFile(FALSE, FALSE, <<>>),
     calls |-> storeCall.calls + 1, created |-> created,
     threw |-> threw, error |-> error, entry |-> entry]

\* the ids a caller may pass: those of the list and one that is not there
CallIds == {conversations[i].id : i \in DOMAIN conversations} \cup {"zz"}

StoreHistories == { <<>>, <<AgentMessage("user", "hi")>> }

InitStore ==
    /\ ChatInit /\ MoodboardIdle /\ MatrixIdle
    /\ SocketIdle /\ GuardIdle /\ AggregatorIdle /\ ReportStoreIdle /\ LastIdle
    /\ requests = <<>>
    /\ saveFailures = 0
    /\ turnsStarted = 0
    /\ \E file \in StoreFiles :
          /\ conversations = constructor(file).conversations
          /\ savedFile = constructor(file).savedFile
          /\ storeCall = [op |-> "constructor", conversationId |-> Null,
                          message |-> NotAnObject, previous |-> <<>>, previousFile |-> <<>>,
                          file |-> file, calls |-> 0,
                          created |-> constructor(file).created,
                          threw |-> FALSE, error |-> Null, entry |-> NotAnObject]

\* the frame of a call of the store, and the bound of the run
CallOfStore(saveOk) ==
    /\ storeCall.calls < MaxStoreCalls
    /\ saveOk \/ saveFailures < MaxSaveFailures
    /\ UNCHANGED <<requests, turnsStarted, chatVars, moodboardVars, matrixVars,
                   socket, guard, aggregator, reportStore, lastVars>>

\* the end of a method that calls _save() when saves is true
Saved(convs, saves, saveOk) ==
    /\ conversations' = convs
    /\ savedFile' = IF saves THEN _save(convs, savedFile, saveOk) ELSE savedFile
    /\ saveFailures' = IF saves /\ ~saveOk THEN saveFailures + 1 ELSE saveFailures

CreateConversation(saveOk) ==
    /\ CallOfStore(saveOk)
    /\ Saved(createConversation(conversations, storeCall.created), TRUE, saveOk)
    /\ storeCall' = StoreCall("createConversation", Null, NotAnObject, storeCall.created + 1,
                              ~saveOk, IF saveOk THEN Null ELSE SaveError, NotAnObject)

DeleteConversation(id, saveOk) ==
    /\ CallOfStore(saveOk)
    /\ \E deleted \in {deleteConversation(conversations, id, storeCall.created)} :
          /\ deleted.saves \/ saveOk
          /\ Saved(deleted.conversations, deleted.saves, saveOk)
          /\ storeCall' = StoreCall("deleteConversation", id, NotAnObject, deleted.created,
                                    ~saveOk, IF saveOk THEN Null ELSE SaveError, NotAnObject)

ResetConversation(id, saveOk) ==
    /\ CallOfStore(saveOk)
    /\ \E reset \in {storeResetConversation(conversations, id)} :
          /\ reset.saves \/ saveOk
          /\ Saved(reset.conversations, reset.saves, saveOk)
          /\ storeCall' = StoreCall("resetConversation", id, NotAnObject, storeCall.created,
                                    ~saveOk, IF saveOk THEN Null ELSE SaveError, NotAnObject)

RenameConversation(id, saveOk) ==
    /\ CallOfStore(saveOk)
    /\ \E renamed \in {renameConversation(conversations, id)} :
          /\ renamed.saves \/ saveOk
          /\ Saved(renamed.conversations, renamed.saves, saveOk)
          /\ storeCall' = StoreCall("renameConversation", id, NotAnObject, storeCall.created,
                                    ~saveOk, IF saveOk THEN Null ELSE SaveError, NotAnObject)

AppendMessage(id, message, saveOk) ==
    /\ CallOfStore(saveOk)
    /\ \E appended \in {appendMessage(conversations, id, message)} :
          /\ appended.saves \/ saveOk
          /\ Saved(appended.conversations, appended.saves, saveOk)
          /\ storeCall' = StoreCall("appendMessage", id, message, storeCall.created,
                                    appended.threw \/ ~saveOk,
                                    IF appended.threw THEN appended.error
                                    ELSE IF saveOk THEN Null ELSE SaveError,
                                    IF appended.threw \/ ~saveOk THEN NotAnObject
                                    ELSE appended.entry)

SetModelHistory(id, history, saveOk) ==
    /\ CallOfStore(saveOk)
    /\ \E written \in {setModelHistory(conversations, id, history)} :
          /\ written.saves \/ saveOk
          /\ Saved(written.conversations, written.saves, saveOk)
          /\ storeCall' = StoreCall("setModelHistory", id, NotAnObject, storeCall.created,
                                    written.threw \/ ~saveOk,
                                    IF written.threw THEN NotFoundError
                                    ELSE IF saveOk THEN Null ELSE SaveError,
                                    NotAnObject)

NextStore ==
    \/ \E saveOk \in BOOLEAN : CreateConversation(saveOk)
    \/ \E id \in CallIds, saveOk \in BOOLEAN : DeleteConversation(id, saveOk)
    \/ \E id \in CallIds, saveOk \in BOOLEAN : ResetConversation(id, saveOk)
    \/ \E id \in CallIds, saveOk \in BOOLEAN : RenameConversation(id, saveOk)
    \/ \E id \in CallIds, message \in RawMessages, saveOk \in BOOLEAN :
          AppendMessage(id, message, saveOk)
    \/ \E id \in CallIds, history \in StoreHistories, saveOk \in BOOLEAN :
          SetModelHistory(id, history, saveOk)

SpecStore == InitStore /\ [][NextStore]_vars

\* the last call deleted the only conversation of the list
DeletedLast ==
    /\ storeCall.op = "deleteConversation"
    /\ Len(storeCall.previous) = 1
    /\ storeCall.previous[1].id = storeCall.conversationId

\* C28: after construction and after every call of createConversation,
\* deleteConversation, resetConversation, renameConversation, appendMessage and
\* setModelHistory the list holds at least one conversation and
\* getDefaultConversationId() is not null; deleting the only conversation
\* leaves one new, empty conversation with another id.
C28_StoreNeverEmpty ==
    /\ Len(conversations) >= 1
    /\ getDefaultConversationId(conversations) # Null
    /\ DeletedLast =>
          /\ Len(conversations) = 1
          /\ conversations[1].id # storeCall.conversationId
          /\ conversations[1].messages = <<>>
          /\ conversations[1].modelHistory = <<>>

C28_Witness ==
    /\ DeletedLast
    /\ storeCall.calls = 2
    /\ Len(conversations) = 1

\* the roles a stored message may have; a payload without role is an
\* assistant message
StoredRoles == {"user", "assistant"}

HasStoredRole(message) == message.role \in StoredRoles \cup {Null}

\* the messages of a file that stay after loading
Loadable(messages) ==
    LET kept == SelectSeq(messages, HasStoredRole)
    IN  [i \in DOMAIN kept |->
            StoredMessage(IF kept[i].role = Null THEN "assistant" ELSE kept[i].role,
                          kept[i].content)]

\* the last call was appendMessage on a conversation of the list
AppendedTo(roles) ==
    /\ storeCall.op = "appendMessage"
    /\ _findConversation(storeCall.previous, storeCall.conversationId) # 0
    /\ storeCall.message.role \in roles

StoreUntouched ==
    /\ conversations = storeCall.previous
    /\ savedFile = storeCall.previousFile

\* C29: every stored message has the role user or assistant; appendMessage
\* with the role error returns the entry and leaves the list (the conversation,
\* its place in the order of updatedAt) and the file as they were; a payload
\* with another role, or one that is no object, is refused with 'Invalid
\* message payload' and nothing changes; loading a file keeps exactly its
\* entries with the roles user, assistant or none, in their order.
C29_OnlyUserAndAssistantStored ==
    /\ \A i \in DOMAIN conversations : \A j \in DOMAIN conversations[i].messages :
          conversations[i].messages[j].role \in StoredRoles
    /\ AppendedTo({"error"}) =>
          /\ ~storeCall.threw
          /\ storeCall.entry = StoredMessage("error", storeCall.message.content)
          /\ StoreUntouched
    /\ AppendedTo({"system", "(not an object)"}) =>
          /\ storeCall.threw
          /\ storeCall.error = InvalidPayloadError
          /\ StoreUntouched
    /\ (storeCall.op = "constructor" /\ storeCall.created = 0) =>
          /\ Len(conversations) = Len(storeCall.file.conversations)
          /\ \A i \in DOMAIN conversations :
                conversations[i].messages = Loadable(storeCall.file.conversations[i].messages)

C29_Witness ==
    /\ AppendedTo({"error"})
    /\ ~storeCall.threw
    /\ storeCall.previous[1].messages # <<>>
    /\ \E i \in DOMAIN savedFile : \E j \in DOMAIN savedFile[i].messages :
          savedFile[i].messages[j].role = "error"

----------------------------------------------------------------------------
(* POST /api/conversations/:conversationId/reset (part_004:196-210) beside   *)
(* the turns: the handler is synchronous and runs whenever the event loop is *)
(* free, so also while a turn awaits agent.chat.                             *)

MaxResets == 1

ResetsDone == IF storeCall.op = "none" THEN 0 ELSE storeCall.resets

\* the requests whose turn on the conversation awaits agent.chat
TurnsInFlight(id) ==
    {r \in Requests : requests[r].pc = "chat" /\ requests[r].targetConversationId = id}

\* an unknown id is answered with 404 and nothing changes
PostConversationReset(id, saveOk) ==
    /\ hasConversation(conversations, id)
    /\ ResetsDone < MaxResets
    /\ saveOk \/ saveFailures < MaxSaveFailures
    /\ \E reset \in {storeResetConversation(conversations, id)} :
          /\ conversations' = reset.conversations
          /\ savedFile' = _save(reset.conversations, savedFile, saveOk)
          /\ saveFailures' = IF saveOk THEN saveFailures ELSE saveFailures + 1
    /\ storeCall' = [op |-> "resetConversation", conversationId |-> id,
                     during |-> TurnsInFlight(id), turnsStarted |-> turnsStarted,
                     resets |-> ResetsDone + 1]
    /\ UNCHANGED <<requests, turnsStarted, chatVars, moodboardVars, matrixVars,
                   socket, guard, aggregator, reportStore, lastVars>>

NextTurnReset ==
    \/ NextTurn
    \/ \E id \in ConversationIds, saveOk \in BOOLEAN : PostConversationReset(id, saveOk)

SpecTurnReset == InitTurn /\ [][NextTurnReset]_vars

\* the turn of r was in flight on the conversation when it was reset, and it
\* is over: no turn has begun since the reset, so it is that turn
TurnOverAfterReset(r) ==
    /\ storeCall.op = "resetConversation"
    /\ r \in storeCall.during
    /\ turnsStarted = storeCall.turnsStarted
    /\ requests[r].pc \in {"returned", "rejected"}
    /\ requests[r].snapshotWrites = 1

\* C30: a reset of a conversation that completes while a turn on it is in
\* flight is not undone by the turn: when the turn is over, the conversation
\* holds no message appended before the reset (the user message of the turn)
\* and its modelHistory does not start with the history the turn had loaded.
C30_ResetNotUndoneByTurn ==
    \A r \in Requests :
       (TurnOverAfterReset(r) /\ requests[r].history # <<>>) =>
          LET c == StoredConversation(conversations, storeCall.conversationId)
          IN  /\ \A j \in DOMAIN c.messages : c.messages[j].role # "user"
              /\ ~IsPrefix(requests[r].history, c.modelHistory)

----------------------------------------------------------------------------
(* DELETE /api/conversations/:conversationId (part_004:179-194) beside the   *)
(* turns: the handler is synchronous and runs whenever the event loop is     *)
(* free, so also while a turn on the conversation awaits agent.chat.         *)

MaxDeletes == 1

DeletesDone == IF storeCall.op = "none" THEN 0 ELSE storeCall.deletes

\* an unknown id is answered with 404 and nothing changes; the conversation
\* that replaces the last one deleted has a new id
DeleteWhileTurn(id, saveOk) ==
    /\ hasConversation(conversations, id)
    /\ DeletesDone < MaxDeletes
    /\ saveOk \/ saveFailures < MaxSaveFailures
    /\ \E deleted \in {deleteConversation(conversations, id, DeletesDone)} :
          /\ conversations' = deleted.conversations
          /\ savedFile' = _save(deleted.conversations, savedFile, saveOk)
          /\ saveFailures' = IF saveOk THEN saveFailures ELSE saveFailures + 1
    /\ storeCall' = [op |-> "deleteConversation", conversationId |-> id,
                     during |-> TurnsInFlight(id), deletes |-> DeletesDone + 1]
    /\ UNCHANGED <<requests, turnsStarted, chatVars, moodboardVars, matrixVars,
                   socket, guard, aggregator, reportStore, lastVars>>

\* the turns of SpecTurn, one fewer in a run
NextTurnDelete ==
    \/ /\ turnsStarted + 1 < MaxServerTurns
       /\ \E r \in Requests, conversationId \in RequestedConversationIds, saveOk \in BOOLEAN :
             TurnBegins(r, conversationId, saveOk)
    \/ \E r \in Requests, rounds \in AgentRounds, appendOk \in BOOLEAN,
          snapshotOk \in BOOLEAN :
          TurnEndsAfterChatResolved(r, rounds, appendOk, snapshotOk)
    \/ \E r \in Requests, pushed \in BOOLEAN, rounds \in AgentRounds,
          snapshotOk \in BOOLEAN :
          TurnEndsAfterChatRejected(r, pushed, rounds, snapshotOk)
    \/ \E r \in Requests : RequestSettled(r)
    \/ \E id \in ConversationIds \cup {NewId(0)}, saveOk \in BOOLEAN :
          DeleteWhileTurn(id, saveOk)

SpecTurnDelete == InitTurn /\ [][NextTurnDelete]_vars

\* the turn of r ends in this step, and its conversation is gone
TurnEndsOnDeleted(r) ==
    /\ requests[r].pc = "chat"
    /\ requests'[r].pc # "chat"
    /\ ~hasConversation(conversations, requests[r].targetConversationId)

\* C31: when the conversation of a turn was deleted while the turn awaited
\* agent.chat, the turn rejects with 'Conversation not found', whether
\* agent.chat resolved or rejected, and the end of the turn changes no
\* conversation of the list and not the file: nothing is written to the
\* default conversation instead.
C31_DeletedConversationRejectsTurn ==
    [][\A r \in Requests :
          TurnEndsOnDeleted(r) =>
             /\ requests'[r].pc = "rejected"
             /\ requests'[r].error = NotFoundError
             /\ conversations' = conversations
             /\ savedFile' = savedFile]_vars

C31_Witness ==
    /\ storeCall.op = "deleteConversation"
    /\ \E r \in storeCall.during :
          /\ requests[r].pc = "rejected"
          /\ requests[r].chatOutcome = "resolved"
          /\ requests[r].error = NotFoundError
          /\ requests[r].targetConversationId = storeCall.conversationId
    /\ Len(conversations) = 1

----------------------------------------------------------------------------
(* The final text in the history and in the return value of chat() *)

\* the text before the warning that chat() adds to a text that stayed invalid
WithoutWarning(text) ==
    IF \E i \in DOMAIN text : text[i] = "WARNING"
    THEN SubSeq(text, 1, (CHOOSE i \in DOMAIN text :
                             /\ text[i] = "WARNING"
                             /\ \A j \in DOMAIN text : text[j] = "WARNING" => j <= i) - 1)
    ELSE text

\* C33: when chat() has returned, the last message of the history is a model
\* message with one text part, and its text is the returned text without the
\* WARNING suffix: the suffix is in the returned text only.
C33_WarningOnlyInReturnedText ==
    pc = "returned" =>
       /\ conversationHistory # <<>>
       /\ LET last == conversationHistory[Len(conversationHistory)]
          IN  /\ last.role = "model"
              /\ Len(last.parts) = 1
              /\ last.parts[1].kind = "text"
              /\ last.parts[1].text = WithoutWarning(returnValue.text)
              /\ \A i \in DOMAIN last.parts[1].text : last.parts[1].text[i] # "WARNING"

C33_Witness ==
    /\ pc = "returned"
    /\ ~returnValue.formatValidation.valid
    /\ \E i \in DOMAIN returnValue.text : returnValue.text[i] = "WARNING"
    /\ WithoutWarning(returnValue.text) # <<>>
    /\ aggregatedToolCalls # <<>>

----------------------------------------------------------------------------
(* chat() calls that overlap on one orchestrator: backend/src/index.js makes *)
(* one AgenticOrchestrator (line 44) and POST /api/chat awaits               *)
(* orchestrator.chat(message) for every request (63-93), so a second call    *)
(* starts while the first awaits the model. this.pendingMoodboard is a field *)
(* of the orchestrator; everything else below is local to a call.            *)

MaxCalls == 2

Calls == 1..MaxCalls

\* the payload a message with the trigger carries: each call has its own
OwnRaInput(c) == RaInput(TRUE, [i \in 1..c |-> "red"], <<"floral">>, <<"cotton">>)

\* the messages of a call: without the trigger, or with it and a payload
ChatInputs(c) ==
    {UserInput(FALSE, "none", NoRaInput), UserInput(TRUE, "object", OwnRaInput(c))}

NoPayload == [isNull |-> TRUE, raInput |-> NoRaInput]

IdleChat ==
    [pc |-> "idle", input |-> UserInput(FALSE, "none", NoRaInput),
     payload |-> NoPayload, attachments |-> <<>>, error |-> Null]

nonChatsVars == <<chatVars, storeVars, matrixVars, moodboardPc, userInput, defaultSource,
                  moodboardPreparation, moodboardHistory, socket, guard, aggregator,
                  reportStore, storeCall, boundary, sse>>

InitChats ==
    /\ ChatInit /\ StoreIdle /\ MatrixIdle
    /\ moodboardPc = "idle"
    /\ userInput = Null
    /\ defaultSource = Null
    /\ moodboardPreparation = Null
    /\ moodboardHistory = <<>>
    /\ pendingMoodboard = NoPreparation
    /\ SocketIdle /\ GuardIdle /\ AggregatorIdle /\ ReportStoreIdle /\ StoreCallIdle
    /\ BoundaryIdle /\ SseIdle
    /\ chats = [c \in Calls |-> IdleChat]

\* chat(userMessage) up to its first await chat.sendMessage: this.pendingMoodboard
\* is set to null, and then to the preparation when there is one;
\* prepareMoodboardContext awaits nothing, so no other call runs in between
ChatBegins(c, input) ==
    /\ chats[c].pc = "idle"
    /\ \E preparation \in {prepareMoodboardContext(input,
                                [kind |-> "object", raInput |-> DefaultRaInput])} :
          pendingMoodboard' = IF preparation.isNull THEN NoPreparation ELSE preparation
    /\ chats' = [chats EXCEPT ![c].pc = "sendMessage", ![c].input = input]
    /\ UNCHANGED nonChatsVars

\* the model calls of the call are over and finalText is there: without a
\* pending context chat() returns, with one it starts to render the PDF
ChatLoopEnds(c) ==
    /\ chats[c].pc = "sendMessage"
    /\ chats' = [chats EXCEPT ![c].pc = IF pendingMoodboard.isNull THEN "returned"
                                        ELSE "renderPdfFromPayload"]
    /\ UNCHANGED <<pendingMoodboard, nonChatsVars>>

\* chat.sendMessage throws: chat() rejects and leaves this.pendingMoodboard
ChatLoopFails(c) ==
    /\ chats[c].pc = "sendMessage"
    /\ chats' = [chats EXCEPT ![c].pc = "rejected", ![c].error = "model call failed"]
    /\ UNCHANGED <<pendingMoodboard, nonChatsVars>>

\* await renderPdfFromPayload(...) is over: it gave the path of the file or it
\* threw; the payload is then read from this.pendingMoodboard, which is null by
\* now when another call has started
RenderPdfSettles(c, rendered) ==
    /\ chats[c].pc = "renderPdfFromPayload"
    /\ IF ~rendered
       THEN /\ chats' = [chats EXCEPT ![c].pc = "rejected", ![c].error = "render failed"]
            /\ UNCHANGED pendingMoodboard
       ELSE IF pendingMoodboard.isNull
       THEN /\ chats' = [chats EXCEPT ![c].pc = "rejected", ![c].error = "TypeError"]
            /\ UNCHANGED pendingMoodboard
       ELSE /\ chats' = [chats EXCEPT
                  ![c].pc = "returned",
                  ![c].payload = [isNull |-> FALSE, raInput |-> pendingMoodboard.raInput],
                  ![c].attachments = <<"application/pdf">>]
            /\ pendingMoodboard' = NoPreparation
    /\ UNCHANGED nonChatsVars

NextChats ==
    \/ \E c \in Calls : \E input \in ChatInputs(c) : ChatBegins(c, input)
    \/ \E c \in Calls : ChatLoopEnds(c)
    \/ \E c \in Calls : ChatLoopFails(c)
    \/ \E c \in Calls, rendered \in BOOLEAN : RenderPdfSettles(c, rendered)

SpecChats == InitChats /\ [][NextChats]_vars

\* C32: the pending context belongs to one turn, also when calls overlap: a
\* chat() that returned for a message with the trigger returns a payload made
\* of the payload of its own message, and a chat() that returned for a message
\* without the trigger returns payload null and no attachments.
C32_PendingMoodboardScopedToTurn ==
    \A c \in Calls :
       chats[c].pc = "returned" =>
          IF chats[c].input.trigger
          THEN /\ ~chats[c].payload.isNull
               /\ chats[c].payload.raInput = chats[c].input.raInput
          ELSE /\ chats[c].payload.isNull
               /\ chats[c].attachments = <<>>

----------------------------------------------------------------------------
(* Turns one after the other: a turn begins when no other is in flight *)

NextTurnSequential ==
    \/ /\ \A q \in Requests : requests[q].pc = "idle"
       /\ \E r \in Requests, conversationId \in RequestedConversationIds, saveOk \in BOOLEAN :
             TurnBegins(r, conversationId, saveOk)
    \/ \E r \in Requests, rounds \in AgentRounds, appendOk \in BOOLEAN,
          snapshotOk \in BOOLEAN :
          TurnEndsAfterChatResolved(r, rounds, appendOk, snapshotOk)
    \/ \E r \in Requests, pushed \in BOOLEAN, rounds \in AgentRounds,
          snapshotOk \in BOOLEAN :
          TurnEndsAfterChatRejected(r, pushed, rounds, snapshotOk)
    \/ \E r \in Requests : RequestSettled(r)

SpecTurnSequential == InitTurn /\ [][NextTurnSequential]_vars

\* the messages of the conversation, wherever it is in the list
StoredMessagesOf(convs, id) == StoredConversation(convs, id).messages

CountRole(messages, role) == Len(SelectSeq(messages, LAMBDA m : m.role = role))

\* every assistant entry comes right after a user entry, there are no more
\* assistant entries than user entries, and there is no error entry
AssistantsFollowUsers ==
    \A i \in DOMAIN conversations :
       LET messages == conversations[i].messages
       IN  /\ \A j \in DOMAIN messages :
                 messages[j].role = "assistant" => j > 1 /\ messages[j - 1].role = "user"
           /\ CountRole(messages, "assistant") <= CountRole(messages, "user")
           /\ CountRole(messages, "error") = 0

\* the agent is invoked in this step: the user entry of the turn is then the
\* last one of its conversation
UserStoredBeforeAgent ==
    \A r \in Requests :
       (requests[r].pc = "idle" /\ requests'[r].pc = "chat") =>
          LET messages == StoredMessagesOf(conversations', requests'[r].targetConversationId)
          IN  /\ messages # <<>>
              /\ messages[Len(messages)] = StoredMessage("user", requests'[r].messageText)

\* a step that adds entries to a conversation adds the user entry of a turn
\* that begins, or the assistant entry of a turn whose agent.chat resolved,
\* right after the user entry of that turn
AssistantStoredAfterResolve ==
    \A id \in ConversationIds :
       LET before == StoredMessagesOf(conversations, id)
           after == StoredMessagesOf(conversations', id)
       IN  after # before =>
              \E r \in Requests :
                 /\ requests'[r].targetConversationId = id
                 /\ \/ /\ requests[r].pc = "idle"
                       /\ after = Append(before, StoredMessage("user", requests'[r].messageText))
                    \/ /\ requests[r].pc = "chat"
                       /\ requests'[r].chatOutcome = "resolved"
                       /\ after = Append(before, StoredMessage("assistant", "answer"))
                       /\ before[Len(before)] = StoredMessage("user", requests[r].messageText)

\* no conversation has other messages after the step than before it
MessagesUnchanged ==
    \A id \in ConversationIds : StoredMessagesOf(conversations', id) = StoredMessagesOf(conversations, id)

\* C34 as stated: the user entry is stored before the agent is invoked, the
\* assistant entry only after agent.chat resolved, a turn that fails stores no
\* assistant and no error entry; so with turns one after the other each
\* assistant entry follows the user entry of its turn and the assistant
\* entries never outnumber the user entries.
C34_FailedTurnStoresNothing ==
    /\ []AssistantsFollowUsers
    /\ [][UserStoredBeforeAgent /\ AssistantStoredAfterResolve]_vars
    /\ [][\A r \in Requests :
             (requests[r].pc = "chat" /\ requests'[r].pc = "rejected") => MessagesUnchanged]_vars

\* C34, amended: as above, except that the turns that store nothing at their
\* end are those whose agent.chat rejected; a turn whose agent.chat resolved
\* stores its assistant entry also when it then fails on a write of the store.
C34_AssistantFollowsOwnUser ==
    /\ []AssistantsFollowUsers
    /\ [][UserStoredBeforeAgent /\ AssistantStoredAfterResolve]_vars
    /\ [][\A r \in Requests :
             (requests[r].pc = "chat" /\ requests'[r].chatOutcome = "rejected")
                => MessagesUnchanged]_vars

\* a failed turn, then a turn that resolved, on one conversation
C34_Witness ==
    \E i \in DOMAIN conversations :
       /\ Len(conversations[i].messages) = 3
       /\ conversations[i].messages[2].role = "user"
       /\ conversations[i].messages[3].role = "assistant"
       /\ \E r \in Requests : requests[r].pc = "returned"

----------------------------------------------------------------------------
(* The objects on the two sides of the ConversationStore methods             *)
(* (backend/src/conversationStore.js). The heap is the list of the objects   *)
(* made so far, an address is a place in it; the store holds the             *)
(* conversations of this.data.conversations, its caller holds what the       *)
(* methods returned and the arrays it made itself. The file is left out: it  *)
(* is text and shares no object with anybody.                                *)

MaxBoundaryCalls == 4

HeapObject(kind, id, messageArray, historyArray, items, content) ==
    [kind |-> kind, id |-> id, messages |-> messageArray, modelHistory |-> historyArray,
     items |-> items, content |-> content]

\* a conversation: {id, messages, modelHistory}, the two arrays by address
ConversationObject(id, messageArray, historyArray) ==
    HeapObject("conversation", id, messageArray, historyArray, <<>>, Null)

\* an array: its items by address
ArrayObject(items) == HeapObject("array", Null, 0, 0, items, Null)

\* a message or a history item: {content}
EntryObject(content) == HeapObject("entry", Null, 0, 0, <<>>, content)

\* what new puts on the heap, and where
Allocate(heap, object) == [heap |-> Append(heap, object), addr |-> Len(heap) + 1]

\* JSON.parse(JSON.stringify(entry)): a new object with the same content
CloneEntry(heap, a) == Allocate(heap, EntryObject(heap[a].content))

\* the items of an array, cloned one after the other
RECURSIVE CloneItems(_, _, _)
CloneItems(heap, items, done) ==
    IF items = <<>> THEN [heap |-> heap, items |-> done]
    ELSE LET cloned == CloneEntry(heap, Head(items))
         IN  CloneItems(cloned.heap, Tail(items), Append(done, cloned.addr))

CloneArray(heap, a) ==
    LET cloned == CloneItems(heap, heap[a].items, <<>>)
    IN  Allocate(cloned.heap, ArrayObject(cloned.items))

CloneConversation(heap, a) ==
    LET messageArray == CloneArray(heap, heap[a].messages)
        historyArray == CloneArray(messageArray.heap, heap[a].modelHistory)
    IN  Allocate(historyArray.heap,
                 ConversationObject(heap[a].id, messageArray.addr, historyArray.addr))

\* mutant: the value itself is handed over
SameReference(heap, a) == [heap |-> heap, addr |-> a]

\* deepClone(value): JSON.parse(JSON.stringify(value)) makes new objects all the
\* way down
deepClone(heap, a) ==
    CASE heap[a].kind = "conversation" -> CloneConversation(heap, a)
      [] heap[a].kind = "array" -> CloneArray(heap, a)
      [] heap[a].kind = "entry" -> CloneEntry(heap, a)

\* _buildConversation(): a conversation with two new empty arrays
BuildConversationObject(heap, id) ==
    LET messageArray == Allocate(heap, ArrayObject(<<>>))
        historyArray == Allocate(messageArray.heap, ArrayObject(<<>>))
    IN  Allocate(historyArray.heap, ConversationObject(id, messageArray.addr, historyArray.addr))

\* this.data.conversations.find(conversation => conversation.id === id): the
\* address of the conversation, or 0
FindConversationObject(heap, store, id) ==
    IF \E i \in DOMAIN store : heap[store[i]].id = id
    THEN store[CHOOSE i \in DOMAIN store :
                  /\ heap[store[i]].id = id
                  /\ \A j \in DOMAIN store : heap[store[j]].id = id => i <= j]
    ELSE 0

Range(s) == {s[i] : i \in DOMAIN s}

\* the objects an object refers to
Children(heap, a) ==
    CASE heap[a].kind = "conversation" -> {heap[a].messages, heap[a].modelHistory}
      [] heap[a].kind = "array" -> Range(heap[a].items)
      [] heap[a].kind = "entry" -> {}

\* the objects that can be reached from the roots: a conversation, its arrays,
\* their items
Reachable(heap, roots) ==
    LET one == roots \cup UNION {Children(heap, a) : a \in roots}
    IN  one \cup UNION {Children(heap, a) : a \in one}

\* what an object is worth, without its addresses
ArrayValue(heap, a) == [i \in DOMAIN heap[a].items |-> heap[heap[a].items[i]].content]

ConversationValue(heap, a) ==
    [id |-> heap[a].id, messages |-> ArrayValue(heap, heap[a].messages),
     modelHistory |-> ArrayValue(heap, heap[a].modelHistory)]

\* what the store is worth: what its methods return to a later reader
StoreValue(b) == [i \in DOMAIN b.store |-> ConversationValue(b.heap, b.store[i])]

Boundary(heap, store, held, op, created) ==
    [heap |-> heap, store |-> store, held |-> held, op |-> op,
     calls |-> boundary.calls + 1, created |-> created]

InitBoundary ==
    /\ ChatInit /\ StoreIdle /\ MoodboardIdle /\ MatrixIdle
    /\ SocketIdle /\ GuardIdle /\ AggregatorIdle /\ ReportStoreIdle /\ StoreCallIdle
    /\ ChatsIdle /\ SseIdle
    /\ \E built \in {BuildConversationObject(<<>>, NewId(0))} :
          boundary = [heap |-> built.heap, store |-> <<built.addr>>, held |-> {},
                      op |-> "constructor", calls |-> 0, created |-> 1]

nonBoundaryVars == <<chatVars, storeVars, moodboardVars, matrixVars, socket, guard,
                     aggregator, reportStore, storeCall, chats, sse>>

BoundaryCall ==
    /\ boundary.calls < MaxBoundaryCalls
    /\ UNCHANGED nonBoundaryVars

\* the ids a caller passes: those of the store and one that is not there
BoundaryIds == {boundary.heap[a].id : a \in Range(boundary.store)} \cup {"zz"}

\* getConversation(id): null, or a clone of the conversation
GetConversation(id) ==
    /\ BoundaryCall
    /\ \E a \in {FindConversationObject(boundary.heap, boundary.store, id)} :
          IF a = 0
          THEN boundary' = Boundary(boundary.heap, boundary.store, boundary.held,
                                    "getConversation", boundary.created)
          ELSE \E cloned \in {deepClone(boundary.heap, a)} :
                  boundary' = Boundary(cloned.heap, boundary.store,
                                       boundary.held \cup {cloned.addr},
                                       "getConversation", boundary.created)

\* getModelHistory(id): [], or a clone of conversation.modelHistory
GetModelHistory(id) ==
    /\ BoundaryCall
    /\ \E a \in {FindConversationObject(boundary.heap, boundary.store, id)} :
       \E returned \in {IF a = 0 THEN Allocate(boundary.heap, ArrayObject(<<>>))
                        ELSE deepClone(boundary.heap, boundary.heap[a].modelHistory)} :
          boundary' = Boundary(returned.heap, boundary.store,
                               boundary.held \cup {returned.addr},
                               "getModelHistory", boundary.created)

\* createConversation(): the new conversation goes to the front, a clone of it
\* to the caller
CreateConversationObject ==
    /\ BoundaryCall
    /\ \E built \in {BuildConversationObject(boundary.heap, NewId(boundary.created))} :
       \E cloned \in {deepClone(built.heap, built.addr)} :
          boundary' = Boundary(cloned.heap, <<built.addr>> \o boundary.store,
                               boundary.held \cup {cloned.addr},
                               "createConversation", boundary.created + 1)

\* appendMessage(id, {role: 'user', content}): _normalizeMessage makes a new
\* object of the strings of the payload, the store pushes it and returns a clone
AppendMessageObject(id, content) ==
    /\ BoundaryCall
    /\ \E a \in {FindConversationObject(boundary.heap, boundary.store, id)} :
          IF a = 0
          THEN boundary' = Boundary(boundary.heap, boundary.store, boundary.held,
                                    "appendMessage", boundary.created)
          ELSE \E entry \in {Allocate(boundary.heap, EntryObject(content))} :
               \E cloned \in {deepClone(entry.heap, entry.addr)} :
                  boundary' =
                     Boundary([cloned.heap EXCEPT ![boundary.heap[a].messages].items =
                                  Append(@, entry.addr)],
                              boundary.store, boundary.held \cup {cloned.addr},
                              "appendMessage", boundary.created)

\* setModelHistory(id, history) with an array the caller holds:
\* conversation.modelHistory = deepClone(history)
SetModelHistoryObject(id, history) ==
    /\ BoundaryCall
    /\ boundary.heap[history].kind = "array"
    /\ \E a \in {FindConversationObject(boundary.heap, boundary.store, id)} :
          IF a = 0
          THEN boundary' = Boundary(boundary.heap, boundary.store, boundary.held,
                                    "setModelHistory", boundary.created)
          ELSE \E cloned \in {deepClone(boundary.heap, history)} :
                  boundary' =
                     Boundary([cloned.heap EXCEPT ![a].modelHistory = cloned.addr],
                              boundary.store, boundary.held, "setModelHistory",
                              boundary.created)

\* the caller changes an object it can reach: it writes a property of an
\* entry or of a conversation, it empties an array, or it pushes a new entry
CallerMutates(a, how) ==
    /\ BoundaryCall
    /\ \E object \in {boundary.heap[a]} :
          CASE how = "write" /\ object.kind = "entry" ->
                  boundary' = Boundary([boundary.heap EXCEPT ![a].content = "mutated"],
                                       boundary.store, boundary.held, "mutate",
                                       boundary.created)
            [] how = "write" /\ object.kind = "conversation" ->
                  boundary' = Boundary([boundary.heap EXCEPT ![a].id = "mutated"],
                                       boundary.store, boundary.held, "mutate",
                                       boundary.created)
            [] how = "clear" /\ object.kind = "array" /\ object.items # <<>> ->
                  boundary' = Boundary([boundary.heap EXCEPT ![a].items = <<>>],
                                       boundary.store, boundary.held, "mutate",
                                       boundary.created)
            [] how = "push" /\ object.kind = "array" ->
                  \E entry \in {Allocate(boundary.heap, EntryObject("pushed"))} :
                     boundary' = Boundary([entry.heap EXCEPT ![a].items = Append(@, entry.addr)],
                                          boundary.store, boundary.held, "mutate",
                                          boundary.created)
            [] OTHER -> FALSE

NextBoundary ==
    \/ \E id \in BoundaryIds : GetConversation(id)
    \/ \E id \in BoundaryIds : GetModelHistory(id)
    \/ CreateConversationObject
    \/ \E id \in BoundaryIds : AppendMessageObject(id, "hi")
    \/ \E id \in BoundaryIds, history \in Reachable(boundary.heap, boundary.held) :
          SetModelHistoryObject(id, history)
    \/ \E a \in Reachable(boundary.heap, boundary.held), how \in {"write", "clear", "push"} :
          CallerMutates(a, how)

SpecBoundary == InitBoundary /\ [][NextBoundary]_vars

\* C35: no object of the store can be reached from what its caller holds, so
\* a change the caller makes to an object returned by getConversation,
\* getModelHistory, createConversation or appendMessage, or to the array it
\* passed to setModelHistory, leaves the store and what a later read returns
\* as they were.
C35_DeepCopiesAtBoundary ==
    /\ [](Reachable(boundary.heap, Range(boundary.store))
             \cap Reachable(boundary.heap, boundary.held) = {})
    /\ [][boundary'.op = "mutate" => StoreValue(boundary') = StoreValue(boundary)]_vars

\* the caller has changed the array it had passed to setModelHistory, and the
\* conversation still has the history it was given
C35_Witness ==
    /\ boundary.op = "mutate"
    /\ \E a \in Range(boundary.store) :
          /\ boundary.heap[boundary.heap[a].modelHistory].items # <<>>
          /\ \E h \in boundary.held :
                /\ boundary.heap[h].kind = "array"
                /\ boundary.heap[h].items = <<>>

----------------------------------------------------------------------------
(* The SSE sessions of the MCP server (mcp-server/src/index.js): the map     *)
(* sseSessions, the GET handler of the SSE paths and the POST handler of the *)
(* messages path. A transport's sessionId is a random UUID; here it is the   *)
(* number of the connection.                                                 *)

MaxConnections == 3

SessionId(k) == "s" \o ToString(k)

SessionIds == {SessionId(k) : k \in 1..MaxConnections}

NoPost == [sessionId |-> Null, status |-> 0, transport |-> Null]

\* const sseSessions = new Map(), and no connection yet
InitSse ==
    /\ ChatInit /\ StoreIdle /\ MoodboardIdle /\ MatrixIdle
    /\ SocketIdle /\ GuardIdle /\ AggregatorIdle /\ ReportStoreIdle /\ StoreCallIdle
    /\ ChatsIdle /\ BoundaryIdle
    /\ sse = [op |-> "init", sessions |-> {}, response |-> [id \in SessionIds |-> "none"],
              opened |-> 0, post |-> NoPost]

nonSseVars == <<chatVars, storeVars, moodboardVars, matrixVars, socket, guard,
                aggregator, reportStore, storeCall, chats, boundary>>

\* mutant: the close handler leaves the entry in the map
KeepsSession(sessions, id) == sessions

\* res.on('close', ...): sseSessions.delete(transport.sessionId)
OnClose(sessions, id) == sessions \ {id}

\* handleSseRequest(req, res, next). A request without text/event-stream in
\* its Accept header goes to next(). For the others the transport and its
\* server are made (failure "create": one of the two constructors throws and
\* the response ends with 500, nothing registered), the session is put in the
\* map, the close handler is registered and server.connect is awaited
\* (failure "connect": the response ends with 500 when no header was sent and
\* stays in the map until its close event).
HandleSseRequest(isSse, failure) ==
    /\ UNCHANGED nonSseVars
    /\ IF ~isSse
       THEN sse' = [sse EXCEPT !.op = "next", !.post = NoPost]
       ELSE /\ sse.opened < MaxConnections
            /\ \E id \in {SessionId(sse.opened + 1)} :
                  sse' = [sse EXCEPT
                            !.op = "connect",
                            !.post = NoPost,
                            !.opened = @ + 1,
                            !.sessions = IF failure = "create" THEN @ ELSE @ \cup {id},
                            !.response[id] = CASE failure = "create" -> "refused"
                                               [] failure = "connect" -> "ending"
                                               [] OTHER -> "streaming"]

\* the 'close' event of a response: the handler registered for it, if any,
\* closes the transport and the server and deletes the session
ResponseCloses(id) ==
    /\ UNCHANGED nonSseVars
    /\ sse.response[id] \in {"streaming", "ending", "refused"}
    /\ sse' = [sse EXCEPT
                 !.op = "close",
                 !.post = NoPost,
                 !.sessions = IF sse.response[id] = "refused" THEN @ ELSE OnClose(@, id),
                 !.response[id] = "closed"]

\* POST <sseMessagesPath>?sessionId=...: 400 without a registered session,
\* else transport.handlePostMessage of that session, whose failure is a 500
PostSseMessage(sessionId, handled) ==
    /\ UNCHANGED nonSseVars
    /\ sse' = [sse EXCEPT
                 !.op = "post",
                 !.post = IF sessionId \in {Null, ""} \/ sessionId \notin sse.sessions
                          THEN [sessionId |-> sessionId, status |-> 400, transport |-> Null]
                          ELSE [sessionId |-> sessionId,
                                status |-> IF handled THEN 202 ELSE 500,
                                transport |-> sessionId]]

NextSse ==
    \/ \E isSse \in BOOLEAN, failure \in {"none", "create", "connect"} :
          HandleSseRequest(isSse, failure)
    \/ \E id \in SessionIds : ResponseCloses(id)
    \/ \E sessionId \in SessionIds \cup {Null, "", "unknown"}, handled \in BOOLEAN :
          PostSseMessage(sessionId, handled)

SpecSse == InitSse /\ [][NextSse]_vars

\* the connections that were accepted and whose response has not closed
OpenSessions == {id \in SessionIds : sse.response[id] \in {"streaming", "ending"}}

\* C36: the map holds a session exactly from the acceptance of its SSE
\* connection to the close of its response, so never one of a closed
\* connection; a POST to the messages path without a sessionId or with one
\* that is not in the map is answered 400 and reaches no transport.
C36_SessionRegistry ==
    /\ [](sse.sessions = OpenSessions)
    /\ [](\A id \in sse.sessions : sse.response[id] # "closed")
    /\ [][sse'.op = "post" /\ (sse'.post.sessionId \in {Null, ""}
                                  \/ sse'.post.sessionId \notin sse.sessions)
             => sse'.post.status = 400 /\ sse'.post.transport = Null]_vars

\* a POST names a session whose connection has closed while another one is
\* still registered, and is answered 400
C36_Witness ==
    /\ sse.op = "post"
    /\ sse.post.sessionId \in SessionIds
    /\ sse.response[sse.post.sessionId] = "closed"
    /\ sse.sessions # {}
    /\ sse.post.status = 400

====
